---- MODULE Spec2Model ----
(***************************************************************************)
(* Model of the scoring engine of the interview-video screening system:    *)
(* Scorer (src/scorer.py) and MockPipeline (src/mock_pipeline.py).         *)
(*                                                                         *)
(* Python floats are IEEE-754 binary64.  The Scorer multiplies and adds    *)
(* them, so the model carries them bit-exactly: a float is a record        *)
(*     [s |-> sign (0 or 1), m |-> mantissa, e |-> exponent]               *)
(* of value (-1)^s * m * 2^e, where m is a natural number of exactly       *)
(* MantBits bits (or zero, written <<>>, with e = 0).  TLC integers are    *)
(* 32 bits wide, so a mantissa is a little-endian sequence of limbs in     *)
(* 0 .. Base-1 without leading zero limbs.  F(n, d) is the float that the  *)
(* decimal literal or the division n/d denotes, e.g. F(3, 10) is 0.3.      *)
(* Below 2^-1022 the floats are subnormal: their last bit has the exponent *)
(* MinExp and m has fewer than MantBits bits; a result below half of the   *)
(* smallest subnormal is zero (the sign of a zero is not carried: -0.0 and *)
(* 0.0 are equal in every comparison the code makes).  No operation of the *)
(* code on metrics in [0, 1] or on the raw audio measurements reaches      *)
(* 2^1024, so inf is not carried; nan arises only as the mean of an empty  *)
(* list, and is modelled where the code computes that mean.                *)
(***************************************************************************)
EXTENDS Integers, Sequences, FiniteSets, TLC

\* ------------------------------------------------------------------------
\* Natural numbers of arbitrary size (limb sequences)
\* ------------------------------------------------------------------------
Base == 2^14
LimbBits == CHOOSE k \in 1..30 : 2^k = Base

SetMax(S) == CHOOSE x \in S : \A y \in S : y <= x

RECURSIVE BigTrim(_)
BigTrim(a) ==
    IF a = <<>> THEN <<>>
    ELSE IF a[Len(a)] = 0 THEN BigTrim(SubSeq(a, 1, Len(a) - 1)) ELSE a

RECURSIVE BigFromInt(_)
BigFromInt(n) == IF n = 0 THEN <<>> ELSE <<n % Base>> \o BigFromInt(n \div Base)

RECURSIVE BigAddC(_, _, _)
BigAddC(a, b, c) ==
    IF a = <<>> /\ b = <<>> THEN (IF c = 0 THEN <<>> ELSE <<c>>)
    ELSE LET x == IF a = <<>> THEN 0 ELSE Head(a)
             y == IF b = <<>> THEN 0 ELSE Head(b)
             t == x + y + c
         IN  <<t % Base>> \o BigAddC(IF a = <<>> THEN a ELSE Tail(a),
                                     IF b = <<>> THEN b ELSE Tail(b),
                                     t \div Base)

BigAdd(a, b) == BigAddC(a, b, 0)

\* a - b for a >= b
RECURSIVE BigSubB(_, _, _)
BigSubB(a, b, bw) ==
    IF a = <<>> THEN <<>>
    ELSE LET y == IF b = <<>> THEN 0 ELSE Head(b)
             t == Head(a) - y - bw
         IN  <<IF t < 0 THEN t + Base ELSE t>>
             \o BigSubB(Tail(a), IF b = <<>> THEN b ELSE Tail(b),
                        IF t < 0 THEN 1 ELSE 0)

BigSub(a, b) == BigTrim(BigSubB(a, b, 0))

\* a * k + c for a limb k
RECURSIVE BigMulSmall(_, _, _)
BigMulSmall(a, k, c) ==
    IF a = <<>> THEN (IF c = 0 THEN <<>> ELSE <<c>>)
    ELSE LET t == Head(a) * k + c
         IN  <<t % Base>> \o BigMulSmall(Tail(a), k, t \div Base)

RECURSIVE BigMulRec(_, _)
BigMulRec(a, b) ==
    IF b = <<>> THEN <<>>
    ELSE BigAdd(BigMulSmall(a, Head(b), 0), <<0>> \o BigMulRec(a, Tail(b)))

BigMul(a, b) == BigTrim(BigMulRec(a, b))

\* -1, 0, 1 as a < b, a = b, a > b
BigCmp(a, b) ==
    IF Len(a) # Len(b) THEN (IF Len(a) < Len(b) THEN -1 ELSE 1)
    ELSE LET D == {i \in 1..Len(a) : a[i] # b[i]}
         IN  IF D = {} THEN 0
             ELSE IF a[SetMax(D)] < b[SetMax(D)] THEN -1 ELSE 1

BigShl(a, n) ==
    IF a = <<>> THEN <<>>
    ELSE LET q == n \div LimbBits
             r == n % LimbBits
             w == [i \in 1..(Len(a) + 1) |->
                     (IF i <= Len(a) THEN (a[i] * 2^r) % Base ELSE 0)
                     + (IF i > 1 THEN a[i-1] \div 2^(LimbBits - r) ELSE 0)]
         IN  BigTrim([i \in 1..q |-> 0] \o w)

BigShr(a, n) ==
    LET q == n \div LimbBits
        r == n % LimbBits
        d == IF q >= Len(a) THEN <<>> ELSE SubSeq(a, q + 1, Len(a))
    IN  BigTrim([i \in 1..Len(d) |->
                    (d[i] \div 2^r)
                    + (IF i < Len(d) THEN (d[i+1] % 2^r) * 2^(LimbBits - r) ELSE 0)])

BigBit(a, i) ==
    IF i \div LimbBits + 1 > Len(a) THEN 0
    ELSE (a[i \div LimbBits + 1] \div 2^(i % LimbBits)) % 2

\* some of the n lowest bits of a is set
BigLowBits(a, n) ==
    \E j \in 1..Len(a) :
        /\ (j - 1) * LimbBits < n
        /\ IF j * LimbBits <= n THEN a[j] # 0
           ELSE a[j] % 2^(n - (j - 1) * LimbBits) # 0

BigBitLen(a) ==
    IF a = <<>> THEN 0
    ELSE LimbBits * (Len(a) - 1)
         + (CHOOSE k \in 1..LimbBits : 2^(k-1) <= a[Len(a)] /\ a[Len(a)] < 2^k)

\* quotient and remainder of a by a small d (d < 2^16)
RECURSIVE BigDivRec(_, _, _, _, _)
BigDivRec(a, d, i, rem, acc) ==
    IF i = 0 THEN [q |-> BigTrim(acc), r |-> rem]
    ELSE LET cur == rem * Base + a[i]
         IN  BigDivRec(a, d, i - 1, cur % d, <<cur \div d>> \o acc)

BigDivSmall(a, d) == BigDivRec(a, d, Len(a), 0, <<>>)

\* ------------------------------------------------------------------------
\* binary64 arithmetic, round to nearest, ties to even
\* ------------------------------------------------------------------------
MantBits == 53
\* the exponent of the last bit of the subnormal floats and of the smallest normal ones
MinExp == 0 - 1074

FZero == [s |-> 0, m |-> <<>>, e |-> 0]

\* the exponent of the last bit of the float nearest to a number of L bits whose last
\* bit has exponent e: MantBits bits are kept, but none below MinExp (gradual
\* underflow)
LastBitExp(e, L) == IF e + L - MantBits < MinExp THEN MinExp ELSE e + L - MantBits

\* the float (-1)^s * q * 2^E for q of at most MantBits bits, or of one bit more
\* after rounding up; zero when nothing is left of q
FRounded(s, q, E) ==
    IF q = <<>> THEN FZero
    ELSE IF BigBitLen(q) > MantBits THEN [s |-> s, m |-> BigShr(q, 1), e |-> E + 1]
    ELSE [s |-> s, m |-> q, e |-> E]

\* M, of which the n last bits are dropped to give q, is rounded up: the dropped bits
\* are more than half of the last kept bit, or half of it and q is odd
RoundsUp(M, q, n) ==
    /\ BigBit(M, n - 1) = 1
    /\ (BigLowBits(M, n - 1) \/ BigBit(q, 0) = 1)

FRoundedFrom(s, M, q, n, E) ==
    FRounded(s, IF RoundsUp(M, q, n) THEN BigAdd(q, <<1>>) ELSE q, E)

\* the float nearest to (-1)^s * M * 2^e with last-bit exponent E
FRoundAt(s, M, e, E) ==
    IF E <= e THEN [s |-> s, m |-> BigShl(M, e - E), e |-> E]
    ELSE FRoundedFrom(s, M, BigShr(M, E - e), E - e, E)

\* the float nearest to (-1)^s * M * 2^e, ties to the even one
FRound(s, M, e) ==
    IF M = <<>> THEN FZero ELSE FRoundAt(s, M, e, LastBitExp(e, BigBitLen(M)))

FMul(x, y) == FRound((x.s + y.s) % 2, BigMul(x.m, y.m), x.e + y.e)

FAdd(x, y) ==
    IF x.m = <<>> THEN y
    ELSE IF y.m = <<>> THEN x
    ELSE LET e0 == IF x.e < y.e THEN x.e ELSE y.e
             X  == BigShl(x.m, x.e - e0)
             Y  == BigShl(y.m, y.e - e0)
             c  == BigCmp(X, Y)
         IN  IF x.s = y.s THEN FRound(x.s, BigAdd(X, Y), e0)
             ELSE IF c = 0 THEN FZero
             ELSE IF c > 0 THEN FRound(x.s, BigSub(X, Y), e0)
             ELSE FRound(y.s, BigSub(Y, X), e0)

\* -1, 0, 1 as x < y, x = y, x > y
FCmpAbs(x, y) ==
    IF x.m = <<>> /\ y.m = <<>> THEN 0
    ELSE IF x.m = <<>> THEN -1
    ELSE IF y.m = <<>> THEN 1
    ELSE IF x.e # y.e THEN (IF x.e < y.e THEN -1 ELSE 1)
    ELSE BigCmp(x.m, y.m)

FCmp(x, y) ==
    IF x.m = <<>> /\ y.m = <<>> THEN 0
    ELSE IF x.s # y.s THEN (IF x.m = <<>> THEN (IF y.s = 1 THEN 1 ELSE -1)
                            ELSE IF x.s = 1 THEN -1 ELSE 1)
    ELSE IF x.s = 0 THEN FCmpAbs(x, y) ELSE FCmpAbs(y, x)

FLt(x, y) == FCmp(x, y) < 0
FLe(x, y) == FCmp(x, y) <= 0
FGe(x, y) == FCmp(x, y) >= 0
FGt(x, y) == FCmp(x, y) > 0

FNeg(x) == IF x.m = <<>> THEN x ELSE [x EXCEPT !.s = 1 - @]
FAbs(x) == [x EXCEPT !.s = 0]
FSub(x, y) == FAdd(x, FNeg(y))

\* x * 2^k
FScale2(x, k) == FRound(x.s, x.m, x.e + k)

\* the float of the literal or quotient n/d, n >= 0, 0 < d < 2^16
F(n, d) ==
    LET qr == BigDivSmall(BigShl(BigFromInt(n), 80), d)
    IN  FRound(0, BigAdd(BigShl(qr.q, 1), IF qr.r = 0 THEN <<>> ELSE <<1>>), -81)


\* x / d for an integer d, 0 < d < 2^16
FDivInt(x, d) ==
    IF x.m = <<>> THEN FZero
    ELSE LET qr == BigDivSmall(BigShl(x.m, 80), d)
         IN  FRound(x.s, BigAdd(BigShl(qr.q, 1), IF qr.r = 0 THEN <<>> ELSE <<1>>),
                    x.e - 81)

\* ------------------------------------------------------------------------
\* Python dictionaries: functions on a finite set of string keys
\* ------------------------------------------------------------------------
\* the value None (a record, so that it compares with dictionaries)
None == [None |-> TRUE]
EmptyDict == <<>>

\* d.get(k, default)
Get(d, k, default) == IF k \in DOMAIN d THEN d[k] ELSE default

Range(seq) == {seq[i] : i \in 1..Len(seq)}

\* truth value of a dictionary or None in a condition
Truthy(d) == d # None /\ DOMAIN d # {}

\* the dictionary a literal {k1: v1, k2: v2, ...} builds: a repeated key
\* keeps its last value
RECURSIVE DictOf(_)
DictOf(pairs) ==
    IF pairs = <<>> THEN EmptyDict
    ELSE LET p    == pairs[Len(pairs)]
             rest == DictOf(SubSeq(pairs, 1, Len(pairs) - 1))
         IN  [k \in (DOMAIN rest) \cup {p[1]} |-> IF k = p[1] THEN p[2] ELSE rest[k]]

\* ------------------------------------------------------------------------
\* Scorer (src/scorer.py)
\* ------------------------------------------------------------------------
\* DefaultWeights with content 0.3 instead of 0.4
DefaultWeightsLightContent ==
    DictOf(<< <<"visual", F(3, 10)>>, <<"audio", F(3, 10)>>, <<"content", F(3, 10)>> >>)

DefaultWeights ==
    DictOf(<< <<"visual", F(3, 10)>>, <<"audio", F(3, 10)>>, <<"content", F(4, 10)>> >>)

\* FeatureWeights with the second 'clarity' entry (content) set to 0.2: the
\* repeated key then also changes the weight the audio score uses
FeatureWeightsClarityCollision ==
    DictOf(<< <<"eye_contact", F(4, 10)>>,
              <<"posture", F(3, 10)>>,
              <<"expression_variation", F(3, 10)>>,
              <<"speaking_rate", F(25, 100)>>,
              <<"pitch_variation", F(25, 100)>>,
              <<"volume_variation", F(2, 10)>>,
              <<"clarity", F(3, 10)>>,
              <<"keyword_relevance", F(4, 10)>>,
              <<"confidence", F(3, 10)>>,
              <<"clarity", F(2, 10)>> >>)

\* FeatureWeights with eye_contact 0.5 instead of 0.4
FeatureWeightsHeavyEyeContact ==
    DictOf(<< <<"eye_contact", F(5, 10)>>,
              <<"posture", F(3, 10)>>,
              <<"expression_variation", F(3, 10)>>,
              <<"speaking_rate", F(25, 100)>>,
              <<"pitch_variation", F(25, 100)>>,
              <<"volume_variation", F(2, 10)>>,
              <<"clarity", F(3, 10)>>,
              <<"keyword_relevance", F(4, 10)>>,
              <<"confidence", F(3, 10)>>,
              <<"clarity", F(3, 10)>> >>)

FeatureWeights ==
    DictOf(<< <<"eye_contact", F(4, 10)>>,
              <<"posture", F(3, 10)>>,
              <<"expression_variation", F(3, 10)>>,
              <<"speaking_rate", F(25, 100)>>,
              <<"pitch_variation", F(25, 100)>>,
              <<"volume_variation", F(2, 10)>>,
              <<"clarity", F(3, 10)>>,
              <<"keyword_relevance", F(4, 10)>>,
              <<"confidence", F(3, 10)>>,
              <<"clarity", F(3, 10)>> >>)

\* Scorer.__init__: the fields of the new object
ScorerInit(arg) ==
    [weights         |-> IF Truthy(arg) THEN arg ELSE DefaultWeights,
     feature_weights |-> FeatureWeights]

Hundred == F(100, 1)

VisualFeaturesOf(input_data) == Get(input_data, "visual_features", EmptyDict)
\* AudioFeaturesOf reading 'clarity' from the content FeatureSet when that has
\* it (one flat namespace for the metric names)
AudioFeaturesOfSharedClarity(input_data) ==
    LET af == Get(input_data, "audio_features", EmptyDict)
        cf == Get(input_data, "content_features", EmptyDict)
    IN  IF Truthy(af) /\ Truthy(cf) /\ "clarity" \in DOMAIN cf
        THEN [k \in (DOMAIN af) \cup {"clarity"} |->
                 IF k = "clarity" THEN cf["clarity"] ELSE af[k]]
        ELSE af

AudioFeaturesOf(input_data) == Get(input_data, "audio_features", EmptyDict)
ContentFeaturesOf(input_data) == Get(input_data, "content_features", EmptyDict)

\* Metric with the default of get being 1
MetricDefaultOne(features, key) == FMul(Get(features, key, F(1, 1)), Hundred)

\* features.get(key, 0) * 100
Metric(features, key) == FMul(Get(features, key, FZero), Hundred)

VisualScore(fw, vf) ==
    IF Truthy(vf)
    THEN FAdd(FAdd(FMul(Metric(vf, "eye_contact"), fw["eye_contact"]),
                   FMul(Metric(vf, "posture"), fw["posture"])),
              FMul(Metric(vf, "expression_variation"), fw["expression_variation"]))
    ELSE FZero

AudioScore(fw, af) ==
    IF Truthy(af)
    THEN FAdd(FAdd(FAdd(FMul(Metric(af, "speaking_rate"), fw["speaking_rate"]),
                        FMul(Metric(af, "pitch_variation"), fw["pitch_variation"])),
                   FMul(Metric(af, "volume_variation"), fw["volume_variation"])),
              FMul(Metric(af, "clarity"), fw["clarity"]))
    ELSE FZero

ContentScore(fw, cf) ==
    IF Truthy(cf)
    THEN FAdd(FAdd(FMul(Metric(cf, "keyword_relevance"), fw["keyword_relevance"]),
                   FMul(Metric(cf, "confidence"), fw["confidence"])),
              FMul(Metric(cf, "clarity"), fw["clarity"]))
    ELSE FZero

OverallScore(w, v, a, c) ==
    FAdd(FAdd(FMul(v, w["visual"]), FMul(a, w["audio"])), FMul(c, w["content"]))

\* a table of the weighted contributions: each metric value x 100 x its feature weight
FeatureScoresWeighted(vf, af, cf) ==
    LET entry(name, fs, key) == <<name, FMul(Metric(fs, key), FeatureWeights[key])>>
    IN  (IF Truthy(vf)
         THEN << entry("eye_contact", vf, "eye_contact"), entry("posture", vf, "posture"),
                 entry("expression", vf, "expression_variation") >>
         ELSE <<>>)
        \o
        (IF Truthy(af)
         THEN << entry("speaking_rate", af, "speaking_rate"),
                 entry("tone_variation", af, "pitch_variation"),
                 entry("volume_control", af, "volume_variation"),
                 entry("voice_clarity", af, "clarity") >>
         ELSE <<>>)
        \o
        (IF Truthy(cf)
         THEN << entry("job_relevance", cf, "keyword_relevance"),
                 entry("confidence", cf, "confidence"),
                 entry("speech_clarity", cf, "clarity") >>
         ELSE <<>>)

\* feature_scores as its items() in insertion order
FeatureScores(vf, af, cf) ==
    (IF Truthy(vf)
     THEN << <<"eye_contact", Metric(vf, "eye_contact")>>,
             <<"posture", Metric(vf, "posture")>>,
             <<"expression", Metric(vf, "expression_variation")>> >>
     ELSE <<>>)
    \o
    (IF Truthy(af)
     THEN << <<"speaking_rate", Metric(af, "speaking_rate")>>,
             <<"tone_variation", Metric(af, "pitch_variation")>>,
             <<"volume_control", Metric(af, "volume_variation")>>,
             <<"voice_clarity", Metric(af, "clarity")>> >>
     ELSE <<>>)
    \o
    (IF Truthy(cf)
     THEN << <<"job_relevance", Metric(cf, "keyword_relevance")>>,
             <<"confidence", Metric(cf, "confidence")>>,
             <<"speech_clarity", Metric(cf, "clarity")>> >>
     ELSE <<>>)

\* a sort that puts a later item before its equals
RECURSIVE SortedFeaturesUnstable(_)
SortedFeaturesUnstable(items) ==
    IF items = <<>> THEN <<>>
    ELSE LET p == items[Len(items)]
             s == SortedFeaturesUnstable(SubSeq(items, 1, Len(items) - 1))
             k == Cardinality({i \in 1..Len(s) : FGt(s[i][2], p[2])})
         IN  SubSeq(s, 1, k) \o <<p>> \o SubSeq(s, k + 1, Len(s))

\* sorted(items, key=lambda x: x[1], reverse=True): stable, descending
RECURSIVE SortedFeatures(_)
SortedFeatures(items) ==
    IF items = <<>> THEN <<>>
    ELSE LET p == items[Len(items)]
             s == SortedFeatures(SubSeq(items, 1, Len(items) - 1))
             k == Cardinality({i \in 1..Len(s) : FGe(s[i][2], p[2])})
         IN  SubSeq(s, 1, k) \o <<p>> \o SubSeq(s, k + 1, Len(s))

Names(items) == [i \in 1..Len(items) |-> items[i][1]]

\* a threshold that leaves out exactly 70
IsStrengthAbove70(item) == FGt(item[2], F(70, 1))

IsStrength(item) == FGe(item[2], F(70, 1))

\* a threshold for improvements above the one for strengths
IsImprovementBelow80(item) == FLt(item[2], F(80, 1))

IsImprovement(item) == FLt(item[2], F(60, 1))

Strengths(feature_scores) ==
    LET s == SortedFeatures(feature_scores)
    IN  Names(SelectSeq(SubSeq(s, 1, IF Len(s) < 3 THEN Len(s) ELSE 3), IsStrength))

Improvements(feature_scores) ==
    LET s == SortedFeatures(feature_scores)
    IN  Names(SelectSeq(SubSeq(s, IF Len(s) < 3 THEN 1 ELSE Len(s) - 2, Len(s)),
                        IsImprovement))

KeyError == [error |-> "KeyError"]

\* Scorer.process
process(w, fw, input_data) ==
    LET vf == VisualFeaturesOf(input_data)
        af == AudioFeaturesOf(input_data)
        cf == ContentFeaturesOf(input_data)
        visual_score  == VisualScore(fw, vf)
        audio_score   == AudioScore(fw, af)
        content_score == ContentScore(fw, cf)
        feature_scores == FeatureScores(vf, af, cf)
    IN  IF {"visual", "audio", "content"} \subseteq DOMAIN w
        THEN [overall_score    |-> OverallScore(w, visual_score, audio_score, content_score),
              component_scores |-> [visual  |-> visual_score,
                                    audio   |-> audio_score,
                                    content |-> content_score],
              feature_scores   |-> feature_scores,
              strengths        |-> Strengths(feature_scores),
              improvements     |-> Improvements(feature_scores)]
        ELSE KeyError

\* ------------------------------------------------------------------------
\* MockPipeline (src/mock_pipeline.py)
\* ------------------------------------------------------------------------
RECURSIVE BigToInt(_)
BigToInt(a) == IF a = <<>> THEN 0 ELSE Head(a) + Base * BigToInt(Tail(a))

\* round(x, 2): the nearest multiple of 0.01, exact ties to the even one
Round2(x) ==
    IF x.m = <<>> THEN FZero
    ELSE LET N    == BigMulSmall(x.m, 100, 0)
             sh   == 0 - x.e
             q    == IF sh <= 0 THEN BigShl(N, x.e) ELSE BigShr(N, sh)
             up   == /\ sh > 0
                     /\ BigBit(N, sh - 1) = 1
                     /\ (BigLowBits(N, sh - 1) \/ BigBit(q, 0) = 1)
             n    == BigToInt(IF up THEN BigAdd(q, <<1>>) ELSE q)
         IN  IF n = 0 THEN FZero ELSE [F(n, 100) EXCEPT !.s = x.s]

\* the entries the mock puts into strengths and improvements; arg is the
\* keyword formatted into the text, "" when the text has none
Text(t) == [text |-> t, arg |-> ""]
StrengthFiller == Text("steady and professional performance")
ImprovementFiller == Text("could improve answer structure")

IndexError == [error |-> "IndexError"]

\* _generate_strengths raises: random.choice(keywords) is called with an empty
\* list (line 83)
StrengthsRaises(content_score, keywords) ==
    FGt(content_score, F(8, 1)) /\ keywords = <<>>

\* _generate_strengths when it returns; choice is the value
\* random.choice(keywords) returns when it is called
GenerateStrengths(visual_score, audio_score, content_score, keywords, choice) ==
    LET s1 == IF FGt(visual_score, F(8, 1))
              THEN <<Text("good non-verbal expression and confident body language")>>
              ELSE <<>>
        s2 == IF FGt(audio_score, F(8, 1))
              THEN <<Text("clear speech and good vocal rhythm")>>
              ELSE <<>>
        s3 == IF FGt(content_score, F(8, 1))
              THEN <<[text |-> "shows expertise in the field of", arg |-> choice]>>
              ELSE <<>>
        strengths == s1 \o s2 \o s3
    IN  IF Len(strengths) = 0 THEN <<StrengthFiller>> ELSE strengths

\* _generate_improvements
GenerateImprovements(visual_score, audio_score, content_score) ==
    LET i1 == IF FLt(visual_score, F(75, 10))
              THEN <<Text("could improve visual performance")>> ELSE <<>>
        i2 == IF FLt(audio_score, F(75, 10))
              THEN <<Text("could improve speech clarity and fluency")>> ELSE <<>>
        i3 == IF FLt(content_score, F(75, 10))
              THEN <<Text("could use more technical terms and case analysis")>> ELSE <<>>
        improvements == i1 \o i2 \o i3
    IN  IF Len(improvements) = 0 THEN <<ImprovementFiller>> ELSE improvements

MockOverall(visual_score, audio_score, content_score) ==
    Round2(FDivInt(FAdd(FAdd(visual_score, audio_score), content_score), 3))

\* the names the three analysis blocks of MockPipeline.process_video bind, in order
MockScores == <<"visual_score", "audio_score", "content_score">>

\* MockPipeline.process_video, lines 47-52: the locals it binds after the last
\* time.sleep; l holds its locals, job_keywords as the list is at that time, and
\* choice is the keyword drawn by random.choice
MockSummary(l, choice) ==
    [overall_score |-> MockOverall(l.visual_score, l.audio_score, l.content_score),
     strengths     |-> GenerateStrengths(l.visual_score, l.audio_score, l.content_score,
                                         l.job_keywords, choice),
     improvements  |-> GenerateImprovements(l.visual_score, l.audio_score,
                                            l.content_score)]

\* MockPipeline.process_video, lines 56-70: the dict it returns, built from its
\* locals l; job_keywords is the caller's list as it is at the return
MockProcessVideoResult(l) ==
    [candidate_name |-> l.candidate_name,
     video_path     |-> l.video_path,
     job_keywords   |-> l.job_keywords,
     scores |-> [overall_score    |-> l.overall_score,
                 component_scores |-> [visual  |-> l.visual_score,
                                       audio   |-> l.audio_score,
                                       content |-> l.content_score],
                 strengths        |-> l.strengths,
                 improvements     |-> l.improvements]]

\* ------------------------------------------------------------------------
\* Rating generators (src/audio_analyzer.py, src/content_analyzer.py,
\* src/visual_analyzer.py)
\* ------------------------------------------------------------------------
\* min(a, b) of Python: b when b < a, else a
FMin(a, b) == IF FLt(b, a) THEN b ELSE a
\* max(a, b) of Python: b when b > a, else a
IntMin(a, b) == IF b < a THEN b ELSE a
IntMax(a, b) == IF b > a THEN b ELSE a

\* int(x): truncation toward zero
FInt(x) ==
    IF x.m = <<>> THEN 0
    ELSE LET q == IF x.e >= 0 THEN BigShl(x.m, x.e) ELSE BigShr(x.m, 0 - x.e)
         IN  IF x.s = 1 THEN 0 - BigToInt(q) ELSE BigToInt(q)

\* int(x) in place of round(x): the fraction is dropped
RoundIntTruncating(x) == FInt(x)

\* round(x): to the nearest integer, ties to the even one
RoundInt(x) ==
    IF x.m = <<>> THEN 0
    ELSE LET sh == 0 - x.e
             q  == IF sh <= 0 THEN BigShl(x.m, x.e) ELSE BigShr(x.m, sh)
             up == /\ sh > 0
                   /\ BigBit(x.m, sh - 1) = 1
                   /\ (BigLowBits(x.m, sh - 1) \/ BigBit(q, 0) = 1)
             n  == BigToInt(IF up THEN BigAdd(q, <<1>>) ELSE q)
         IN  IF x.s = 1 THEN 0 - n ELSE n

\* the bands with a boundary value put into the lower band
TempoBandInclusive(tempo) ==
    IF FLe(tempo, F(3, 10)) THEN [rating |-> 2, comment |-> "slow pace"]
    ELSE IF FLe(tempo, F(45, 100)) THEN [rating |-> 3, comment |-> "moderate pace"]
    ELSE IF FLe(tempo, F(6, 10)) THEN [rating |-> 4, comment |-> "fluent pace"]
    ELSE IF FLe(tempo, F(75, 100)) THEN [rating |-> 5, comment |-> "energetic pace"]
    ELSE [rating |-> 2, comment |-> "too fast"]

\* the bands with the moderate band reaching up to 0.6
TempoBandWideModerate(tempo) ==
    IF FLt(tempo, F(3, 10)) THEN [rating |-> 2, comment |-> "slow pace"]
    ELSE IF FLt(tempo, F(6, 10)) THEN [rating |-> 3, comment |-> "moderate pace"]
    ELSE IF FLt(tempo, F(75, 100)) THEN [rating |-> 5, comment |-> "energetic pace"]
    ELSE [rating |-> 2, comment |-> "too fast"]

\* AudioAnalyzer._generate_ratings, tempo_rating and tempo_comment; the comments are
\* named by their meaning
TempoBand(tempo) ==
    IF FLt(tempo, F(3, 10)) THEN [rating |-> 2, comment |-> "slow pace"]
    ELSE IF FLt(tempo, F(45, 100)) THEN [rating |-> 3, comment |-> "moderate pace"]
    ELSE IF FLt(tempo, F(6, 10)) THEN [rating |-> 4, comment |-> "fluent pace"]
    ELSE IF FLt(tempo, F(75, 100)) THEN [rating |-> 5, comment |-> "energetic pace"]
    ELSE [rating |-> 2, comment |-> "too fast"]

PitchBand(pitch_var) ==
    IF FLt(pitch_var, F(1, 10)) THEN [rating |-> 1, comment |-> "monotonous"]
    ELSE IF FLt(pitch_var, F(3, 10)) THEN [rating |-> 3, comment |-> "moderate intonation"]
    ELSE [rating |-> 5, comment |-> "rich intonation"]

VolumeBand(volume_var) ==
    IF FLt(volume_var, F(1, 10)) THEN [rating |-> 2, comment |-> "little volume change"]
    ELSE IF FLt(volume_var, F(3, 10)) THEN [rating |-> 3, comment |-> "moderate volume change"]
    ELSE [rating |-> 5, comment |-> "expressive volume"]

ClarityBand(clarity) ==
    IF FLt(clarity, F(3, 10)) THEN [rating |-> 2, comment |-> "limited clarity"]
    ELSE IF FLt(clarity, F(6, 10)) THEN [rating |-> 3, comment |-> "good clarity"]
    ELSE [rating |-> 5, comment |-> "very clear"]

\* sum(r * w for r, w in zip(ratings, weights)) with the four weights 0.25
AudioOverallScore(ratings) ==
    LET term(i) == FMul(F(ratings[i], 1), F(25, 100))
    IN  FAdd(FAdd(FAdd(FAdd(FZero, term(1)), term(2)), term(3)), term(4))

AudioOverallRating(ratings) == IntMin(5, IntMax(1, RoundInt(AudioOverallScore(ratings))))

AudioOverallComment(overall_rating) ==
    IF overall_rating <= 2 THEN "speaking needs improvement"
    ELSE IF overall_rating = 3 THEN "speaking is good"
    ELSE "speaking is excellent"

SpeechRatioComment(speech_ratio) ==
    IF FLt(speech_ratio, F(4, 10)) THEN "low speech ratio"
    ELSE IF FLt(speech_ratio, F(7, 10)) THEN "moderate speech ratio"
    ELSE "high speech ratio"

\* AudioAnalyzer._generate_ratings(metrics)
AudioGenerateRatings(metrics) ==
    LET tempo    == TempoBand(metrics["tempo"])
        pitch    == PitchBand(metrics["pitch_variation"])
        volume   == VolumeBand(metrics["volume_variation"])
        clarity  == ClarityBand(metrics["clarity"])
        overall_rating ==
            AudioOverallRating(<<tempo.rating, pitch.rating, volume.rating, clarity.rating>>)
    IN  [tempo_rating   |-> tempo.rating,
         pitch_rating   |-> pitch.rating,
         volume_rating  |-> volume.rating,
         clarity_rating |-> clarity.rating,
         overall_rating |-> overall_rating,
         comments |-> [tempo        |-> tempo.comment,
                       pitch        |-> pitch.comment,
                       volume       |-> volume.comment,
                       clarity      |-> clarity.comment,
                       speech_ratio |-> SpeechRatioComment(metrics["speech_ratio"]),
                       overall      |-> AudioOverallComment(overall_rating)]]

\* round(x * 5), at least 1
StarsOf(x) == IntMax(1, RoundInt(FMul(x, F(5, 1))))

\* a comment that lists the first n matched keywords
KeywordComment(t, matched_keywords, n) ==
    [text |-> t,
     keywords |-> SubSeq(matched_keywords, 1, IntMin(n, Len(matched_keywords)))]

\* ContentAnalyzer.process, content_quality
ContentQuality(clarity, confidence_score, keyword_relevance, topic_relevance) ==
    FAdd(FAdd(FAdd(FMul(clarity, F(4, 10)), FMul(confidence_score, F(3, 10))),
              FMul(keyword_relevance, F(2, 10))),
         FMul(topic_relevance, F(1, 10)))

\* ContentAnalyzer._generate_ratings(metrics)
ContentGenerateRatings(metrics) ==
    LET keyword_relevance == metrics["keyword_relevance"]
        confidence        == metrics["confidence"]
        clarity           == metrics["clarity"]
        content_quality   == metrics["content_quality"]
        matched_keywords  == metrics["matched_keywords"]
    IN  [keyword_rating    |-> StarsOf(keyword_relevance),
         confidence_rating |-> StarsOf(confidence),
         clarity_rating    |-> StarsOf(clarity),
         overall_rating    |-> StarsOf(content_quality),
         comments |->
            [keyword    |-> IF FLt(keyword_relevance, F(2, 10))
                            THEN KeywordComment("hardly any job keywords", <<>>, 0)
                            ELSE IF FLt(keyword_relevance, F(5, 10))
                            THEN KeywordComment("some job keywords", matched_keywords, 3)
                            ELSE KeywordComment("job keywords well covered", matched_keywords, 5),
             confidence |-> IF FLt(confidence, F(4, 10)) THEN "lacks confidence"
                            ELSE IF FLt(confidence, F(7, 10)) THEN "moderately confident"
                            ELSE "confident",
             clarity    |-> IF FLt(clarity, F(4, 10)) THEN "not clear enough"
                            ELSE IF FLt(clarity, F(7, 10)) THEN "fairly clear"
                            ELSE "very clear",
             overall    |-> IF FLt(content_quality, F(4, 10)) THEN "content needs improvement"
                            ELSE IF FLt(content_quality, F(7, 10)) THEN "content is good"
                            ELSE "content is excellent"]]

\* a rating that is not capped at 5
StarsFromNoCap(x, k) == FInt(FMul(x, F(k, 1))) + 1

\* min(5, int(x * k) + 1)
StarsFrom(x, k) == IntMin(5, FInt(FMul(x, F(k, 1))) + 1)

\* the weights of eye_contact and expression exchanged
VisualOverallScoreSwapped(eye_contact, expression, posture) ==
    FAdd(FAdd(FMul(eye_contact, F(3, 10)), FMul(expression, F(4, 10))),
         FMul(posture, F(3, 10)))

\* VisualAnalyzer._generate_analysis_summary, overall_score
VisualOverallScore(eye_contact, expression, posture) ==
    FAdd(FAdd(FMul(eye_contact, F(4, 10)), FMul(expression, F(3, 10))),
         FMul(posture, F(3, 10)))

\* VisualAnalyzer._generate_analysis_summary(metrics); analysis_explanation is the
\* sequence of the sentences that the code joins with ' '
VisualGenerateAnalysisSummary(metrics) ==
    LET eye_contact    == metrics["eye_contact"]
        expression     == metrics["expression_variation"]
        posture        == metrics["posture"]
        detection_rate == metrics["face_detection_rate"]
        overall_score  == VisualOverallScore(eye_contact, expression, posture)
    IN  [eye_contact_rating |-> StarsFrom(eye_contact, 5),
         expression_rating  |-> StarsFrom(expression, 10),
         posture_rating     |-> StarsFrom(posture, 5),
         overall_rating     |-> IntMin(5, IntMax(1, FInt(FMul(overall_score, F(5, 1))) + 1)),
         overall_score      |-> overall_score,
         analysis_explanation |->
            << IF FLt(eye_contact, F(3, 10)) THEN "little eye contact"
               ELSE IF FLt(eye_contact, F(7, 10)) THEN "moderate eye contact"
               ELSE "excellent eye contact",
               IF FLt(expression, F(1, 10)) THEN "little expression"
               ELSE IF FLt(expression, F(3, 10)) THEN "some expression"
               ELSE "rich expression",
               IF FLt(posture, F(4, 10)) THEN "casual posture"
               ELSE IF FLt(posture, F(7, 10)) THEN "proper posture"
               ELSE "professional posture" >>
            \o (IF FLt(detection_rate, F(5, 10)) THEN <<"low face detection rate">>
                ELSE <<>>)]

\* ------------------------------------------------------------------------
\* Feature providers (AudioAnalyzer.process, ContentAnalyzer.process,
\* VisualAnalyzer.process)
\* ------------------------------------------------------------------------
\* the audio file at input_data['audio_path']: not there, there but librosa raises on
\* it, or there with the measurements librosa and numpy return for it
MissingFile == [file |-> "missing"]
UnreadableFile == [file |-> "unreadable"]

NormalizedTempo(tempo) == FMin(F(1, 1), FDivInt(tempo, 240))
NormalizedPitchVar(pitch_variation) == FMin(F(1, 1), FDivInt(pitch_variation, 100))
NormalizedVolumeVar(volume_variation) == FMin(F(1, 1), FMul(volume_variation, F(20, 1)))
NormalizedMfccVar(mfcc_var) == FMin(F(1, 1), FDivInt(mfcc_var, 20))

\* sum(clarity_features)
ClarityScore(normalized_mfcc_var, normalized_pitch_var, normalized_volume_var) ==
    FAdd(FAdd(FAdd(FZero, FMul(normalized_mfcc_var, F(4, 10))),
              FMul(normalized_pitch_var, F(3, 10))),
         FMul(normalized_volume_var, F(3, 10)))

RhythmicScore(normalized_tempo) ==
    FMin(F(1, 1), FAdd(F(5, 10), FMul(FSub(normalized_tempo, F(4, 10)), F(15, 10))))

TonalScore(normalized_pitch_var) == FMin(F(1, 1), FMul(normalized_pitch_var, F(2, 1)))

\* AudioAnalyzer.process; of 'raw' the four measurements that are normalized are kept
AudioAnalyzerProcess(audio) ==
    IF audio = MissingFile THEN [error |-> "audio file does not exist"]
    ELSE IF audio = UnreadableFile THEN [error |-> "audio analysis failed"]
    ELSE
    LET normalized_tempo      == NormalizedTempo(audio.tempo)
        normalized_pitch_var  == NormalizedPitchVar(audio.pitch_variation)
        normalized_volume_var == NormalizedVolumeVar(audio.volume_variation)
        normalized_mfcc_var   == NormalizedMfccVar(audio.mfcc_var)
        clarity_score == ClarityScore(normalized_mfcc_var, normalized_pitch_var,
                                      normalized_volume_var)
    IN  [speaking_rate    |-> normalized_tempo,
         pitch_variation  |-> normalized_pitch_var,
         volume_variation |-> normalized_volume_var,
         pause_count      |-> audio.pause_count,
         clarity          |-> clarity_score,
         speech_ratio     |-> audio.speech_ratio,
         rhythmic_score   |-> RhythmicScore(normalized_tempo),
         tonal_score      |-> TonalScore(normalized_pitch_var),
         raw |-> [tempo_bpm  |-> audio.tempo,
                  pitch_std  |-> audio.pitch_variation,
                  volume_std |-> audio.volume_variation,
                  mfcc_var   |-> audio.mfcc_var],
         ratings |-> AudioGenerateRatings(
                        [tempo            |-> normalized_tempo,
                         pitch_variation  |-> normalized_pitch_var,
                         volume_variation |-> normalized_volume_var,
                         clarity          |-> clarity_score,
                         speech_ratio     |-> audio.speech_ratio])]

\* sum(scores) / len(scores) if scores else 0.0
RECURSIVE FSum(_)
FSum(scores) ==
    IF scores = <<>> THEN FZero
    ELSE FAdd(FSum(SubSeq(scores, 1, Len(scores) - 1)), scores[Len(scores)])

MeanOrZero(scores) ==
    IF scores = <<>> THEN FZero ELSE FDivInt(FSum(scores), Len(scores))

\* ---- text: a str is the sequence of the code points of its characters. The
\* character tables are those of str.strip, str.lower and the pattern \w of the Python
\* runtime (Unicode 14.0.0)

\* the printable ASCII characters from " " (code point 32) to "_" (95) and from "a"
\* (97) to "~" (126)
AsciiToUnderscore ==
    <<" ", "!", "\"", "#", "$", "%", "&", "'", "(", ")", "*", "+", ",", "-", ".", "/",
      "0", "1", "2", "3", "4", "5", "6", "7", "8", "9", ":", ";", "<", "=", ">", "?",
      "@", "A", "B", "C", "D", "E", "F", "G", "H", "I", "J", "K", "L", "M", "N", "O",
      "P", "Q", "R", "S", "T", "U", "V", "W", "X", "Y", "Z", "[", "\\", "]", "^", "_">>
AsciiFromSmallA ==
    <<"a", "b", "c", "d", "e", "f", "g", "h", "i", "j", "k", "l", "m", "n", "o", "p",
      "q", "r", "s", "t", "u", "v", "w", "x", "y", "z", "{", "|", "}", "~">>

\* ord(c) of one of these characters
Ord(c) ==
    IF c \in Range(AsciiToUnderscore)
    THEN 31 + (CHOOSE i \in 1..Len(AsciiToUnderscore) : AsciiToUnderscore[i] = c)
    ELSE 96 + (CHOOSE i \in 1..Len(AsciiFromSmallA) : AsciiFromSmallA[i] = c)

\* the str of a literal, given by its characters
Str(chars) == [i \in 1..Len(chars) |-> Ord(chars[i])]

\* c is in one of the ranges <<first, last>> of code points
InRanges(c, ranges) == \E r \in ranges : r[1] <= c /\ c <= r[2]

\* the characters str.strip() removes: those str.isspace() holds for
Whitespace ==
  { 9, 10, 11, 12, 13, 28, 29, 30, 31, 32, 133, 160,
    5760, 8192, 8193, 8194, 8195, 8196, 8197, 8198, 8199, 8200, 8201, 8202,
    8232, 8233, 8239, 8287, 12288 }

\* the characters \w matches in a str pattern: those str.isalnum() holds for, and "_"
WordRanges ==
  { <<48, 57>>, <<65, 90>>, <<95, 95>>, <<97, 122>>, <<170, 170>>, <<178, 179>>, <<181, 181>>,
    <<185, 186>>, <<188, 190>>, <<192, 214>>, <<216, 246>>, <<248, 705>>, <<710, 721>>, <<736, 740>>,
    <<748, 748>>, <<750, 750>>, <<880, 884>>, <<886, 887>>, <<890, 893>>, <<895, 895>>, <<902, 902>>,
    <<904, 906>>, <<908, 908>>, <<910, 929>>, <<931, 1013>>, <<1015, 1153>>, <<1162, 1327>>, <<1329, 1366>>,
    <<1369, 1369>>, <<1376, 1416>>, <<1488, 1514>>, <<1519, 1522>>, <<1568, 1610>>, <<1632, 1641>>, <<1646, 1647>>,
    <<1649, 1747>>, <<1749, 1749>>, <<1765, 1766>>, <<1774, 1788>>, <<1791, 1791>>, <<1808, 1808>>, <<1810, 1839>>,
    <<1869, 1957>>, <<1969, 1969>>, <<1984, 2026>>, <<2036, 2037>>, <<2042, 2042>>, <<2048, 2069>>, <<2074, 2074>>,
    <<2084, 2084>>, <<2088, 2088>>, <<2112, 2136>>, <<2144, 2154>>, <<2160, 2183>>, <<2185, 2190>>, <<2208, 2249>>,
    <<2308, 2361>>, <<2365, 2365>>, <<2384, 2384>>, <<2392, 2401>>, <<2406, 2415>>, <<2417, 2432>>, <<2437, 2444>>,
    <<2447, 2448>>, <<2451, 2472>>, <<2474, 2480>>, <<2482, 2482>>, <<2486, 2489>>, <<2493, 2493>>, <<2510, 2510>>,
    <<2524, 2525>>, <<2527, 2529>>, <<2534, 2545>>, <<2548, 2553>>, <<2556, 2556>>, <<2565, 2570>>, <<2575, 2576>>,
    <<2579, 2600>>, <<2602, 2608>>, <<2610, 2611>>, <<2613, 2614>>, <<2616, 2617>>, <<2649, 2652>>, <<2654, 2654>>,
    <<2662, 2671>>, <<2674, 2676>>, <<2693, 2701>>, <<2703, 2705>>, <<2707, 2728>>, <<2730, 2736>>, <<2738, 2739>>,
    <<2741, 2745>>, <<2749, 2749>>, <<2768, 2768>>, <<2784, 2785>>, <<2790, 2799>>, <<2809, 2809>>, <<2821, 2828>>,
    <<2831, 2832>>, <<2835, 2856>>, <<2858, 2864>>, <<2866, 2867>>, <<2869, 2873>>, <<2877, 2877>>, <<2908, 2909>>,
    <<2911, 2913>>, <<2918, 2927>>, <<2929, 2935>>, <<2947, 2947>>, <<2949, 2954>>, <<2958, 2960>>, <<2962, 2965>>,
    <<2969, 2970>>, <<2972, 2972>>, <<2974, 2975>>, <<2979, 2980>>, <<2984, 2986>>, <<2990, 3001>>, <<3024, 3024>>,
    <<3046, 3058>>, <<3077, 3084>>, <<3086, 3088>>, <<3090, 3112>>, <<3114, 3129>>, <<3133, 3133>>, <<3160, 3162>>,
    <<3165, 3165>>, <<3168, 3169>>, <<3174, 3183>>, <<3192, 3198>>, <<3200, 3200>>, <<3205, 3212>>, <<3214, 3216>>,
    <<3218, 3240>>, <<3242, 3251>>, <<3253, 3257>>, <<3261, 3261>>, <<3293, 3294>>, <<3296, 3297>>, <<3302, 3311>>,
    <<3313, 3314>>, <<3332, 3340>>, <<3342, 3344>>, <<3346, 3386>>, <<3389, 3389>>, <<3406, 3406>>, <<3412, 3414>>,
    <<3416, 3425>>, <<3430, 3448>>, <<3450, 3455>>, <<3461, 3478>>, <<3482, 3505>>, <<3507, 3515>>, <<3517, 3517>>,
    <<3520, 3526>>, <<3558, 3567>>, <<3585, 3632>>, <<3634, 3635>>, <<3648, 3654>>, <<3664, 3673>>, <<3713, 3714>>,
    <<3716, 3716>>, <<3718, 3722>>, <<3724, 3747>>, <<3749, 3749>>, <<3751, 3760>>, <<3762, 3763>>, <<3773, 3773>>,
    <<3776, 3780>>, <<3782, 3782>>, <<3792, 3801>>, <<3804, 3807>>, <<3840, 3840>>, <<3872, 3891>>, <<3904, 3911>>,
    <<3913, 3948>>, <<3976, 3980>>, <<4096, 4138>>, <<4159, 4169>>, <<4176, 4181>>, <<4186, 4189>>, <<4193, 4193>>,
    <<4197, 4198>>, <<4206, 4208>>, <<4213, 4225>>, <<4238, 4238>>, <<4240, 4249>>, <<4256, 4293>>, <<4295, 4295>>,
    <<4301, 4301>>, <<4304, 4346>>, <<4348, 4680>>, <<4682, 4685>>, <<4688, 4694>>, <<4696, 4696>>, <<4698, 4701>>,
    <<4704, 4744>>, <<4746, 4749>>, <<4752, 4784>>, <<4786, 4789>>, <<4792, 4798>>, <<4800, 4800>>, <<4802, 4805>>,
    <<4808, 4822>>, <<4824, 4880>>, <<4882, 4885>>, <<4888, 4954>>, <<4969, 4988>>, <<4992, 5007>>, <<5024, 5109>>,
    <<5112, 5117>>, <<5121, 5740>>, <<5743, 5759>>, <<5761, 5786>>, <<5792, 5866>>, <<5870, 5880>>, <<5888, 5905>>,
    <<5919, 5937>>, <<5952, 5969>>, <<5984, 5996>>, <<5998, 6000>>, <<6016, 6067>>, <<6103, 6103>>, <<6108, 6108>>,
    <<6112, 6121>>, <<6128, 6137>>, <<6160, 6169>>, <<6176, 6264>>, <<6272, 6276>>, <<6279, 6312>>, <<6314, 6314>>,
    <<6320, 6389>>, <<6400, 6430>>, <<6470, 6509>>, <<6512, 6516>>, <<6528, 6571>>, <<6576, 6601>>, <<6608, 6618>>,
    <<6656, 6678>>, <<6688, 6740>>, <<6784, 6793>>, <<6800, 6809>>, <<6823, 6823>>, <<6917, 6963>>, <<6981, 6988>>,
    <<6992, 7001>>, <<7043, 7072>>, <<7086, 7141>>, <<7168, 7203>>, <<7232, 7241>>, <<7245, 7293>>, <<7296, 7304>>,
    <<7312, 7354>>, <<7357, 7359>>, <<7401, 7404>>, <<7406, 7411>>, <<7413, 7414>>, <<7418, 7418>>, <<7424, 7615>>,
    <<7680, 7957>>, <<7960, 7965>>, <<7968, 8005>>, <<8008, 8013>>, <<8016, 8023>>, <<8025, 8025>>, <<8027, 8027>>,
    <<8029, 8029>>, <<8031, 8061>>, <<8064, 8116>>, <<8118, 8124>>, <<8126, 8126>>, <<8130, 8132>>, <<8134, 8140>>,
    <<8144, 8147>>, <<8150, 8155>>, <<8160, 8172>>, <<8178, 8180>>, <<8182, 8188>>, <<8304, 8305>>, <<8308, 8313>>,
    <<8319, 8329>>, <<8336, 8348>>, <<8450, 8450>>, <<8455, 8455>>, <<8458, 8467>>, <<8469, 8469>>, <<8473, 8477>>,
    <<8484, 8484>>, <<8486, 8486>>, <<8488, 8488>>, <<8490, 8493>>, <<8495, 8505>>, <<8508, 8511>>, <<8517, 8521>>,
    <<8526, 8526>>, <<8528, 8585>>, <<9312, 9371>>, <<9450, 9471>>, <<10102, 10131>>, <<11264, 11492>>, <<11499, 11502>>,
    <<11506, 11507>>, <<11517, 11517>>, <<11520, 11557>>, <<11559, 11559>>, <<11565, 11565>>, <<11568, 11623>>, <<11631, 11631>>,
    <<11648, 11670>>, <<11680, 11686>>, <<11688, 11694>>, <<11696, 11702>>, <<11704, 11710>>, <<11712, 11718>>, <<11720, 11726>>,
    <<11728, 11734>>, <<11736, 11742>>, <<11823, 11823>>, <<12293, 12295>>, <<12321, 12329>>, <<12337, 12341>>, <<12344, 12348>>,
    <<12353, 12438>>, <<12445, 12447>>, <<12449, 12538>>, <<12540, 12543>>, <<12549, 12591>>, <<12593, 12686>>, <<12690, 12693>>,
    <<12704, 12735>>, <<12784, 12799>>, <<12832, 12841>>, <<12872, 12879>>, <<12881, 12895>>, <<12928, 12937>>, <<12977, 12991>>,
    <<13312, 19903>>, <<19968, 42124>>, <<42192, 42237>>, <<42240, 42508>>, <<42512, 42539>>, <<42560, 42606>>, <<42623, 42653>>,
    <<42656, 42735>>, <<42775, 42783>>, <<42786, 42888>>, <<42891, 42954>>, <<42960, 42961>>, <<42963, 42963>>, <<42965, 42969>>,
    <<42994, 43009>>, <<43011, 43013>>, <<43015, 43018>>, <<43020, 43042>>, <<43056, 43061>>, <<43072, 43123>>, <<43138, 43187>>,
    <<43216, 43225>>, <<43250, 43255>>, <<43259, 43259>>, <<43261, 43262>>, <<43264, 43301>>, <<43312, 43334>>, <<43360, 43388>>,
    <<43396, 43442>>, <<43471, 43481>>, <<43488, 43492>>, <<43494, 43518>>, <<43520, 43560>>, <<43584, 43586>>, <<43588, 43595>>,
    <<43600, 43609>>, <<43616, 43638>>, <<43642, 43642>>, <<43646, 43695>>, <<43697, 43697>>, <<43701, 43702>>, <<43705, 43709>>,
    <<43712, 43712>>, <<43714, 43714>>, <<43739, 43741>>, <<43744, 43754>>, <<43762, 43764>>, <<43777, 43782>>, <<43785, 43790>>,
    <<43793, 43798>>, <<43808, 43814>>, <<43816, 43822>>, <<43824, 43866>>, <<43868, 43881>>, <<43888, 44002>>, <<44016, 44025>>,
    <<44032, 55203>>, <<55216, 55238>>, <<55243, 55291>>, <<63744, 64109>>, <<64112, 64217>>, <<64256, 64262>>, <<64275, 64279>>,
    <<64285, 64285>>, <<64287, 64296>>, <<64298, 64310>>, <<64312, 64316>>, <<64318, 64318>>, <<64320, 64321>>, <<64323, 64324>>,
    <<64326, 64433>>, <<64467, 64829>>, <<64848, 64911>>, <<64914, 64967>>, <<65008, 65019>>, <<65136, 65140>>, <<65142, 65276>>,
    <<65296, 65305>>, <<65313, 65338>>, <<65345, 65370>>, <<65382, 65470>>, <<65474, 65479>>, <<65482, 65487>>, <<65490, 65495>>,
    <<65498, 65500>>, <<65536, 65547>>, <<65549, 65574>>, <<65576, 65594>>, <<65596, 65597>>, <<65599, 65613>>, <<65616, 65629>>,
    <<65664, 65786>>, <<65799, 65843>>, <<65856, 65912>>, <<65930, 65931>>, <<66176, 66204>>, <<66208, 66256>>, <<66273, 66299>>,
    <<66304, 66339>>, <<66349, 66378>>, <<66384, 66421>>, <<66432, 66461>>, <<66464, 66499>>, <<66504, 66511>>, <<66513, 66517>>,
    <<66560, 66717>>, <<66720, 66729>>, <<66736, 66771>>, <<66776, 66811>>, <<66816, 66855>>, <<66864, 66915>>, <<66928, 66938>>,
    <<66940, 66954>>, <<66956, 66962>>, <<66964, 66965>>, <<66967, 66977>>, <<66979, 66993>>, <<66995, 67001>>, <<67003, 67004>>,
    <<67072, 67382>>, <<67392, 67413>>, <<67424, 67431>>, <<67456, 67461>>, <<67463, 67504>>, <<67506, 67514>>, <<67584, 67589>>,
    <<67592, 67592>>, <<67594, 67637>>, <<67639, 67640>>, <<67644, 67644>>, <<67647, 67669>>, <<67672, 67702>>, <<67705, 67742>>,
    <<67751, 67759>>, <<67808, 67826>>, <<67828, 67829>>, <<67835, 67867>>, <<67872, 67897>>, <<67968, 68023>>, <<68028, 68047>>,
    <<68050, 68096>>, <<68112, 68115>>, <<68117, 68119>>, <<68121, 68149>>, <<68160, 68168>>, <<68192, 68222>>, <<68224, 68255>>,
    <<68288, 68295>>, <<68297, 68324>>, <<68331, 68335>>, <<68352, 68405>>, <<68416, 68437>>, <<68440, 68466>>, <<68472, 68497>>,
    <<68521, 68527>>, <<68608, 68680>>, <<68736, 68786>>, <<68800, 68850>>, <<68858, 68899>>, <<68912, 68921>>, <<69216, 69246>>,
    <<69248, 69289>>, <<69296, 69297>>, <<69376, 69415>>, <<69424, 69445>>, <<69457, 69460>>, <<69488, 69505>>, <<69552, 69579>>,
    <<69600, 69622>>, <<69635, 69687>>, <<69714, 69743>>, <<69745, 69746>>, <<69749, 69749>>, <<69763, 69807>>, <<69840, 69864>>,
    <<69872, 69881>>, <<69891, 69926>>, <<69942, 69951>>, <<69956, 69956>>, <<69959, 69959>>, <<69968, 70002>>, <<70006, 70006>>,
    <<70019, 70066>>, <<70081, 70084>>, <<70096, 70106>>, <<70108, 70108>>, <<70113, 70132>>, <<70144, 70161>>, <<70163, 70187>>,
    <<70272, 70278>>, <<70280, 70280>>, <<70282, 70285>>, <<70287, 70301>>, <<70303, 70312>>, <<70320, 70366>>, <<70384, 70393>>,
    <<70405, 70412>>, <<70415, 70416>>, <<70419, 70440>>, <<70442, 70448>>, <<70450, 70451>>, <<70453, 70457>>, <<70461, 70461>>,
    <<70480, 70480>>, <<70493, 70497>>, <<70656, 70708>>, <<70727, 70730>>, <<70736, 70745>>, <<70751, 70753>>, <<70784, 70831>>,
    <<70852, 70853>>, <<70855, 70855>>, <<70864, 70873>>, <<71040, 71086>>, <<71128, 71131>>, <<71168, 71215>>, <<71236, 71236>>,
    <<71248, 71257>>, <<71296, 71338>>, <<71352, 71352>>, <<71360, 71369>>, <<71424, 71450>>, <<71472, 71483>>, <<71488, 71494>>,
    <<71680, 71723>>, <<71840, 71922>>, <<71935, 71942>>, <<71945, 71945>>, <<71948, 71955>>, <<71957, 71958>>, <<71960, 71983>>,
    <<71999, 71999>>, <<72001, 72001>>, <<72016, 72025>>, <<72096, 72103>>, <<72106, 72144>>, <<72161, 72161>>, <<72163, 72163>>,
    <<72192, 72192>>, <<72203, 72242>>, <<72250, 72250>>, <<72272, 72272>>, <<72284, 72329>>, <<72349, 72349>>, <<72368, 72440>>,
    <<72704, 72712>>, <<72714, 72750>>, <<72768, 72768>>, <<72784, 72812>>, <<72818, 72847>>, <<72960, 72966>>, <<72968, 72969>>,
    <<72971, 73008>>, <<73030, 73030>>, <<73040, 73049>>, <<73056, 73061>>, <<73063, 73064>>, <<73066, 73097>>, <<73112, 73112>>,
    <<73120, 73129>>, <<73440, 73458>>, <<73648, 73648>>, <<73664, 73684>>, <<73728, 74649>>, <<74752, 74862>>, <<74880, 75075>>,
    <<77712, 77808>>, <<77824, 78894>>, <<82944, 83526>>, <<92160, 92728>>, <<92736, 92766>>, <<92768, 92777>>, <<92784, 92862>>,
    <<92864, 92873>>, <<92880, 92909>>, <<92928, 92975>>, <<92992, 92995>>, <<93008, 93017>>, <<93019, 93025>>, <<93027, 93047>>,
    <<93053, 93071>>, <<93760, 93846>>, <<93952, 94026>>, <<94032, 94032>>, <<94099, 94111>>, <<94176, 94177>>, <<94179, 94179>>,
    <<94208, 100343>>, <<100352, 101589>>, <<101632, 101640>>, <<110576, 110579>>, <<110581, 110587>>, <<110589, 110590>>, <<110592, 110882>>,
    <<110928, 110930>>, <<110948, 110951>>, <<110960, 111355>>, <<113664, 113770>>, <<113776, 113788>>, <<113792, 113800>>, <<113808, 113817>>,
    <<119520, 119539>>, <<119648, 119672>>, <<119808, 119892>>, <<119894, 119964>>, <<119966, 119967>>, <<119970, 119970>>, <<119973, 119974>>,
    <<119977, 119980>>, <<119982, 119993>>, <<119995, 119995>>, <<119997, 120003>>, <<120005, 120069>>, <<120071, 120074>>, <<120077, 120084>>,
    <<120086, 120092>>, <<120094, 120121>>, <<120123, 120126>>, <<120128, 120132>>, <<120134, 120134>>, <<120138, 120144>>, <<120146, 120485>>,
    <<120488, 120512>>, <<120514, 120538>>, <<120540, 120570>>, <<120572, 120596>>, <<120598, 120628>>, <<120630, 120654>>, <<120656, 120686>>,
    <<120688, 120712>>, <<120714, 120744>>, <<120746, 120770>>, <<120772, 120779>>, <<120782, 120831>>, <<122624, 122654>>, <<123136, 123180>>,
    <<123191, 123197>>, <<123200, 123209>>, <<123214, 123214>>, <<123536, 123565>>, <<123584, 123627>>, <<123632, 123641>>, <<124896, 124902>>,
    <<124904, 124907>>, <<124909, 124910>>, <<124912, 124926>>, <<124928, 125124>>, <<125127, 125135>>, <<125184, 125251>>, <<125259, 125259>>,
    <<125264, 125273>>, <<126065, 126123>>, <<126125, 126127>>, <<126129, 126132>>, <<126209, 126253>>, <<126255, 126269>>, <<126464, 126467>>,
    <<126469, 126495>>, <<126497, 126498>>, <<126500, 126500>>, <<126503, 126503>>, <<126505, 126514>>, <<126516, 126519>>, <<126521, 126521>>,
    <<126523, 126523>>, <<126530, 126530>>, <<126535, 126535>>, <<126537, 126537>>, <<126539, 126539>>, <<126541, 126543>>, <<126545, 126546>>,
    <<126548, 126548>>, <<126551, 126551>>, <<126553, 126553>>, <<126555, 126555>>, <<126557, 126557>>, <<126559, 126559>>, <<126561, 126562>>,
    <<126564, 126564>>, <<126567, 126570>>, <<126572, 126578>>, <<126580, 126583>>, <<126585, 126588>>, <<126590, 126590>>, <<126592, 126601>>,
    <<126603, 126619>>, <<126625, 126627>>, <<126629, 126633>>, <<126635, 126651>>, <<127232, 127244>>, <<130032, 130041>>, <<131072, 173791>>,
    <<173824, 177976>>, <<177984, 178205>>, <<178208, 183969>>, <<183984, 191456>>, <<194560, 195101>>, <<196608, 201546>> }

\* the case-ignorable characters, which str.lower() skips around a capital sigma
CaseIgnorableRanges ==
  { <<39, 39>>, <<46, 46>>, <<58, 58>>, <<94, 94>>, <<96, 96>>, <<168, 168>>, <<173, 173>>,
    <<175, 175>>, <<180, 180>>, <<183, 184>>, <<688, 879>>, <<884, 885>>, <<890, 890>>, <<900, 901>>,
    <<903, 903>>, <<1155, 1161>>, <<1369, 1369>>, <<1375, 1375>>, <<1425, 1469>>, <<1471, 1471>>, <<1473, 1474>>,
    <<1476, 1477>>, <<1479, 1479>>, <<1524, 1524>>, <<1536, 1541>>, <<1552, 1562>>, <<1564, 1564>>, <<1600, 1600>>,
    <<1611, 1631>>, <<1648, 1648>>, <<1750, 1757>>, <<1759, 1768>>, <<1770, 1773>>, <<1807, 1807>>, <<1809, 1809>>,
    <<1840, 1866>>, <<1958, 1968>>, <<2027, 2037>>, <<2042, 2042>>, <<2045, 2045>>, <<2070, 2093>>, <<2137, 2139>>,
    <<2184, 2184>>, <<2192, 2193>>, <<2200, 2207>>, <<2249, 2306>>, <<2362, 2362>>, <<2364, 2364>>, <<2369, 2376>>,
    <<2381, 2381>>, <<2385, 2391>>, <<2402, 2403>>, <<2417, 2417>>, <<2433, 2433>>, <<2492, 2492>>, <<2497, 2500>>,
    <<2509, 2509>>, <<2530, 2531>>, <<2558, 2558>>, <<2561, 2562>>, <<2620, 2620>>, <<2625, 2626>>, <<2631, 2632>>,
    <<2635, 2637>>, <<2641, 2641>>, <<2672, 2673>>, <<2677, 2677>>, <<2689, 2690>>, <<2748, 2748>>, <<2753, 2757>>,
    <<2759, 2760>>, <<2765, 2765>>, <<2786, 2787>>, <<2810, 2815>>, <<2817, 2817>>, <<2876, 2876>>, <<2879, 2879>>,
    <<2881, 2884>>, <<2893, 2893>>, <<2901, 2902>>, <<2914, 2915>>, <<2946, 2946>>, <<3008, 3008>>, <<3021, 3021>>,
    <<3072, 3072>>, <<3076, 3076>>, <<3132, 3132>>, <<3134, 3136>>, <<3142, 3144>>, <<3146, 3149>>, <<3157, 3158>>,
    <<3170, 3171>>, <<3201, 3201>>, <<3260, 3260>>, <<3263, 3263>>, <<3270, 3270>>, <<3276, 3277>>, <<3298, 3299>>,
    <<3328, 3329>>, <<3387, 3388>>, <<3393, 3396>>, <<3405, 3405>>, <<3426, 3427>>, <<3457, 3457>>, <<3530, 3530>>,
    <<3538, 3540>>, <<3542, 3542>>, <<3633, 3633>>, <<3636, 3642>>, <<3654, 3662>>, <<3761, 3761>>, <<3764, 3772>>,
    <<3782, 3782>>, <<3784, 3789>>, <<3864, 3865>>, <<3893, 3893>>, <<3895, 3895>>, <<3897, 3897>>, <<3953, 3966>>,
    <<3968, 3972>>, <<3974, 3975>>, <<3981, 3991>>, <<3993, 4028>>, <<4038, 4038>>, <<4141, 4144>>, <<4146, 4151>>,
    <<4153, 4154>>, <<4157, 4158>>, <<4184, 4185>>, <<4190, 4192>>, <<4209, 4212>>, <<4226, 4226>>, <<4229, 4230>>,
    <<4237, 4237>>, <<4253, 4253>>, <<4348, 4348>>, <<4957, 4959>>, <<5906, 5908>>, <<5938, 5939>>, <<5970, 5971>>,
    <<6002, 6003>>, <<6068, 6069>>, <<6071, 6077>>, <<6086, 6086>>, <<6089, 6099>>, <<6103, 6103>>, <<6109, 6109>>,
    <<6155, 6159>>, <<6211, 6211>>, <<6277, 6278>>, <<6313, 6313>>, <<6432, 6434>>, <<6439, 6440>>, <<6450, 6450>>,
    <<6457, 6459>>, <<6679, 6680>>, <<6683, 6683>>, <<6742, 6742>>, <<6744, 6750>>, <<6752, 6752>>, <<6754, 6754>>,
    <<6757, 6764>>, <<6771, 6780>>, <<6783, 6783>>, <<6823, 6823>>, <<6832, 6862>>, <<6912, 6915>>, <<6964, 6964>>,
    <<6966, 6970>>, <<6972, 6972>>, <<6978, 6978>>, <<7019, 7027>>, <<7040, 7041>>, <<7074, 7077>>, <<7080, 7081>>,
    <<7083, 7085>>, <<7142, 7142>>, <<7144, 7145>>, <<7149, 7149>>, <<7151, 7153>>, <<7212, 7219>>, <<7222, 7223>>,
    <<7288, 7293>>, <<7376, 7378>>, <<7380, 7392>>, <<7394, 7400>>, <<7405, 7405>>, <<7412, 7412>>, <<7416, 7417>>,
    <<7468, 7530>>, <<7544, 7544>>, <<7579, 7679>>, <<8125, 8125>>, <<8127, 8129>>, <<8141, 8143>>, <<8157, 8159>>,
    <<8173, 8175>>, <<8189, 8190>>, <<8203, 8207>>, <<8216, 8217>>, <<8228, 8228>>, <<8231, 8231>>, <<8234, 8238>>,
    <<8288, 8292>>, <<8294, 8303>>, <<8305, 8305>>, <<8319, 8319>>, <<8336, 8348>>, <<8400, 8432>>, <<11388, 11389>>,
    <<11503, 11505>>, <<11631, 11631>>, <<11647, 11647>>, <<11744, 11775>>, <<11823, 11823>>, <<12293, 12293>>, <<12330, 12333>>,
    <<12337, 12341>>, <<12347, 12347>>, <<12441, 12446>>, <<12540, 12542>>, <<40981, 40981>>, <<42232, 42237>>, <<42508, 42508>>,
    <<42607, 42610>>, <<42612, 42621>>, <<42623, 42623>>, <<42652, 42655>>, <<42736, 42737>>, <<42752, 42785>>, <<42864, 42864>>,
    <<42888, 42890>>, <<42994, 42996>>, <<43000, 43001>>, <<43010, 43010>>, <<43014, 43014>>, <<43019, 43019>>, <<43045, 43046>>,
    <<43052, 43052>>, <<43204, 43205>>, <<43232, 43249>>, <<43263, 43263>>, <<43302, 43309>>, <<43335, 43345>>, <<43392, 43394>>,
    <<43443, 43443>>, <<43446, 43449>>, <<43452, 43453>>, <<43471, 43471>>, <<43493, 43494>>, <<43561, 43566>>, <<43569, 43570>>,
    <<43573, 43574>>, <<43587, 43587>>, <<43596, 43596>>, <<43632, 43632>>, <<43644, 43644>>, <<43696, 43696>>, <<43698, 43700>>,
    <<43703, 43704>>, <<43710, 43711>>, <<43713, 43713>>, <<43741, 43741>>, <<43756, 43757>>, <<43763, 43764>>, <<43766, 43766>>,
    <<43867, 43871>>, <<43881, 43883>>, <<44005, 44005>>, <<44008, 44008>>, <<44013, 44013>>, <<64286, 64286>>, <<64434, 64450>>,
    <<65024, 65039>>, <<65043, 65043>>, <<65056, 65071>>, <<65106, 65106>>, <<65109, 65109>>, <<65279, 65279>>, <<65287, 65287>>,
    <<65294, 65294>>, <<65306, 65306>>, <<65342, 65342>>, <<65344, 65344>>, <<65392, 65392>>, <<65438, 65439>>, <<65507, 65507>>,
    <<65529, 65531>>, <<66045, 66045>>, <<66272, 66272>>, <<66422, 66426>>, <<67456, 67461>>, <<67463, 67504>>, <<67506, 67514>>,
    <<68097, 68099>>, <<68101, 68102>>, <<68108, 68111>>, <<68152, 68154>>, <<68159, 68159>>, <<68325, 68326>>, <<68900, 68903>>,
    <<69291, 69292>>, <<69446, 69456>>, <<69506, 69509>>, <<69633, 69633>>, <<69688, 69702>>, <<69744, 69744>>, <<69747, 69748>>,
    <<69759, 69761>>, <<69811, 69814>>, <<69817, 69818>>, <<69821, 69821>>, <<69826, 69826>>, <<69837, 69837>>, <<69888, 69890>>,
    <<69927, 69931>>, <<69933, 69940>>, <<70003, 70003>>, <<70016, 70017>>, <<70070, 70078>>, <<70089, 70092>>, <<70095, 70095>>,
    <<70191, 70193>>, <<70196, 70196>>, <<70198, 70199>>, <<70206, 70206>>, <<70367, 70367>>, <<70371, 70378>>, <<70400, 70401>>,
    <<70459, 70460>>, <<70464, 70464>>, <<70502, 70508>>, <<70512, 70516>>, <<70712, 70719>>, <<70722, 70724>>, <<70726, 70726>>,
    <<70750, 70750>>, <<70835, 70840>>, <<70842, 70842>>, <<70847, 70848>>, <<70850, 70851>>, <<71090, 71093>>, <<71100, 71101>>,
    <<71103, 71104>>, <<71132, 71133>>, <<71219, 71226>>, <<71229, 71229>>, <<71231, 71232>>, <<71339, 71339>>, <<71341, 71341>>,
    <<71344, 71349>>, <<71351, 71351>>, <<71453, 71455>>, <<71458, 71461>>, <<71463, 71467>>, <<71727, 71735>>, <<71737, 71738>>,
    <<71995, 71996>>, <<71998, 71998>>, <<72003, 72003>>, <<72148, 72151>>, <<72154, 72155>>, <<72160, 72160>>, <<72193, 72202>>,
    <<72243, 72248>>, <<72251, 72254>>, <<72263, 72263>>, <<72273, 72278>>, <<72281, 72283>>, <<72330, 72342>>, <<72344, 72345>>,
    <<72752, 72758>>, <<72760, 72765>>, <<72767, 72767>>, <<72850, 72871>>, <<72874, 72880>>, <<72882, 72883>>, <<72885, 72886>>,
    <<73009, 73014>>, <<73018, 73018>>, <<73020, 73021>>, <<73023, 73029>>, <<73031, 73031>>, <<73104, 73105>>, <<73109, 73109>>,
    <<73111, 73111>>, <<73459, 73460>>, <<78896, 78904>>, <<92912, 92916>>, <<92976, 92982>>, <<92992, 92995>>, <<94031, 94031>>,
    <<94095, 94111>>, <<94176, 94177>>, <<94179, 94180>>, <<110576, 110579>>, <<110581, 110587>>, <<110589, 110590>>, <<113821, 113822>>,
    <<113824, 113827>>, <<118528, 118573>>, <<118576, 118598>>, <<119143, 119145>>, <<119155, 119170>>, <<119173, 119179>>, <<119210, 119213>>,
    <<119362, 119364>>, <<121344, 121398>>, <<121403, 121452>>, <<121461, 121461>>, <<121476, 121476>>, <<121499, 121503>>, <<121505, 121519>>,
    <<122880, 122886>>, <<122888, 122904>>, <<122907, 122913>>, <<122915, 122916>>, <<122918, 122922>>, <<123184, 123197>>, <<123566, 123566>>,
    <<123628, 123631>>, <<125136, 125142>>, <<125252, 125259>>, <<127995, 127999>>, <<917505, 917505>>, <<917536, 917631>>, <<917760, 917999>> }

\* the cased characters among those that are not case-ignorable
CasedRanges ==
  { <<65, 90>>, <<97, 122>>, <<170, 170>>, <<181, 181>>, <<186, 186>>, <<192, 214>>, <<216, 246>>,
    <<248, 442>>, <<444, 447>>, <<452, 659>>, <<661, 687>>, <<880, 883>>, <<886, 887>>, <<891, 893>>,
    <<895, 895>>, <<902, 902>>, <<904, 906>>, <<908, 908>>, <<910, 929>>, <<931, 1013>>, <<1015, 1153>>,
    <<1162, 1327>>, <<1329, 1366>>, <<1376, 1416>>, <<4256, 4293>>, <<4295, 4295>>, <<4301, 4301>>, <<4304, 4346>>,
    <<4349, 4351>>, <<5024, 5109>>, <<5112, 5117>>, <<7296, 7304>>, <<7312, 7354>>, <<7357, 7359>>, <<7424, 7467>>,
    <<7531, 7543>>, <<7545, 7578>>, <<7680, 7957>>, <<7960, 7965>>, <<7968, 8005>>, <<8008, 8013>>, <<8016, 8023>>,
    <<8025, 8025>>, <<8027, 8027>>, <<8029, 8029>>, <<8031, 8061>>, <<8064, 8116>>, <<8118, 8124>>, <<8126, 8126>>,
    <<8130, 8132>>, <<8134, 8140>>, <<8144, 8147>>, <<8150, 8155>>, <<8160, 8172>>, <<8178, 8180>>, <<8182, 8188>>,
    <<8450, 8450>>, <<8455, 8455>>, <<8458, 8467>>, <<8469, 8469>>, <<8473, 8477>>, <<8484, 8484>>, <<8486, 8486>>,
    <<8488, 8488>>, <<8490, 8493>>, <<8495, 8500>>, <<8505, 8505>>, <<8508, 8511>>, <<8517, 8521>>, <<8526, 8526>>,
    <<8544, 8575>>, <<8579, 8580>>, <<9398, 9449>>, <<11264, 11387>>, <<11390, 11492>>, <<11499, 11502>>, <<11506, 11507>>,
    <<11520, 11557>>, <<11559, 11559>>, <<11565, 11565>>, <<42560, 42605>>, <<42624, 42651>>, <<42786, 42863>>, <<42865, 42887>>,
    <<42891, 42894>>, <<42896, 42954>>, <<42960, 42961>>, <<42963, 42963>>, <<42965, 42969>>, <<42997, 42998>>, <<43002, 43002>>,
    <<43824, 43866>>, <<43872, 43880>>, <<43888, 43967>>, <<64256, 64262>>, <<64275, 64279>>, <<65313, 65338>>, <<65345, 65370>>,
    <<66560, 66639>>, <<66736, 66771>>, <<66776, 66811>>, <<66928, 66938>>, <<66940, 66954>>, <<66956, 66962>>, <<66964, 66965>>,
    <<66967, 66977>>, <<66979, 66993>>, <<66995, 67001>>, <<67003, 67004>>, <<68736, 68786>>, <<68800, 68850>>, <<71840, 71903>>,
    <<93760, 93823>>, <<119808, 119892>>, <<119894, 119964>>, <<119966, 119967>>, <<119970, 119970>>, <<119973, 119974>>, <<119977, 119980>>,
    <<119982, 119993>>, <<119995, 119995>>, <<119997, 120003>>, <<120005, 120069>>, <<120071, 120074>>, <<120077, 120084>>, <<120086, 120092>>,
    <<120094, 120121>>, <<120123, 120126>>, <<120128, 120132>>, <<120134, 120134>>, <<120138, 120144>>, <<120146, 120485>>, <<120488, 120512>>,
    <<120514, 120538>>, <<120540, 120570>>, <<120572, 120596>>, <<120598, 120628>>, <<120630, 120654>>, <<120656, 120686>>, <<120688, 120712>>,
    <<120714, 120744>>, <<120746, 120770>>, <<120772, 120779>>, <<122624, 122633>>, <<122635, 122654>>, <<125184, 125251>>, <<127280, 127305>>,
    <<127312, 127337>>, <<127344, 127369>> }

\* the lower-case mappings of single characters: <<first, last, step, delta>> maps
\* every step-th code point c from first to last to c + delta
LowerRules ==
  { <<65, 90, 1, 32>>, <<192, 214, 1, 32>>, <<216, 222, 1, 32>>, <<256, 302, 2, 1>>,
    <<306, 310, 2, 1>>, <<313, 327, 2, 1>>, <<330, 374, 2, 1>>, <<376, 376, 1, -121>>,
    <<377, 381, 2, 1>>, <<385, 385, 1, 210>>, <<386, 388, 2, 1>>, <<390, 390, 1, 206>>,
    <<391, 391, 1, 1>>, <<393, 394, 1, 205>>, <<395, 395, 1, 1>>, <<398, 398, 1, 79>>,
    <<399, 399, 1, 202>>, <<400, 400, 1, 203>>, <<401, 401, 1, 1>>, <<403, 403, 1, 205>>,
    <<404, 404, 1, 207>>, <<406, 406, 1, 211>>, <<407, 407, 1, 209>>, <<408, 408, 1, 1>>,
    <<412, 412, 1, 211>>, <<413, 413, 1, 213>>, <<415, 415, 1, 214>>, <<416, 420, 2, 1>>,
    <<422, 422, 1, 218>>, <<423, 423, 1, 1>>, <<425, 425, 1, 218>>, <<428, 428, 1, 1>>,
    <<430, 430, 1, 218>>, <<431, 431, 1, 1>>, <<433, 434, 1, 217>>, <<435, 437, 2, 1>>,
    <<439, 439, 1, 219>>, <<440, 440, 1, 1>>, <<444, 444, 1, 1>>, <<452, 452, 1, 2>>,
    <<453, 453, 1, 1>>, <<455, 455, 1, 2>>, <<456, 456, 1, 1>>, <<458, 458, 1, 2>>,
    <<459, 475, 2, 1>>, <<478, 494, 2, 1>>, <<497, 497, 1, 2>>, <<498, 500, 2, 1>>,
    <<502, 502, 1, -97>>, <<503, 503, 1, -56>>, <<504, 542, 2, 1>>, <<544, 544, 1, -130>>,
    <<546, 562, 2, 1>>, <<570, 570, 1, 10795>>, <<571, 571, 1, 1>>, <<573, 573, 1, -163>>,
    <<574, 574, 1, 10792>>, <<577, 577, 1, 1>>, <<579, 579, 1, -195>>, <<580, 580, 1, 69>>,
    <<581, 581, 1, 71>>, <<582, 590, 2, 1>>, <<880, 882, 2, 1>>, <<886, 886, 1, 1>>,
    <<895, 895, 1, 116>>, <<902, 902, 1, 38>>, <<904, 906, 1, 37>>, <<908, 908, 1, 64>>,
    <<910, 911, 1, 63>>, <<913, 929, 1, 32>>, <<932, 939, 1, 32>>, <<975, 975, 1, 8>>,
    <<984, 1006, 2, 1>>, <<1012, 1012, 1, -60>>, <<1015, 1015, 1, 1>>, <<1017, 1017, 1, -7>>,
    <<1018, 1018, 1, 1>>, <<1021, 1023, 1, -130>>, <<1024, 1039, 1, 80>>, <<1040, 1071, 1, 32>>,
    <<1120, 1152, 2, 1>>, <<1162, 1214, 2, 1>>, <<1216, 1216, 1, 15>>, <<1217, 1229, 2, 1>>,
    <<1232, 1326, 2, 1>>, <<1329, 1366, 1, 48>>, <<4256, 4293, 1, 7264>>, <<4295, 4295, 1, 7264>>,
    <<4301, 4301, 1, 7264>>, <<5024, 5103, 1, 38864>>, <<5104, 5109, 1, 8>>, <<7312, 7354, 1, -3008>>,
    <<7357, 7359, 1, -3008>>, <<7680, 7828, 2, 1>>, <<7838, 7838, 1, -7615>>, <<7840, 7934, 2, 1>>,
    <<7944, 7951, 1, -8>>, <<7960, 7965, 1, -8>>, <<7976, 7983, 1, -8>>, <<7992, 7999, 1, -8>>,
    <<8008, 8013, 1, -8>>, <<8025, 8031, 2, -8>>, <<8040, 8047, 1, -8>>, <<8072, 8079, 1, -8>>,
    <<8088, 8095, 1, -8>>, <<8104, 8111, 1, -8>>, <<8120, 8121, 1, -8>>, <<8122, 8123, 1, -74>>,
    <<8124, 8124, 1, -9>>, <<8136, 8139, 1, -86>>, <<8140, 8140, 1, -9>>, <<8152, 8153, 1, -8>>,
    <<8154, 8155, 1, -100>>, <<8168, 8169, 1, -8>>, <<8170, 8171, 1, -112>>, <<8172, 8172, 1, -7>>,
    <<8184, 8185, 1, -128>>, <<8186, 8187, 1, -126>>, <<8188, 8188, 1, -9>>, <<8486, 8486, 1, -7517>>,
    <<8490, 8490, 1, -8383>>, <<8491, 8491, 1, -8262>>, <<8498, 8498, 1, 28>>, <<8544, 8559, 1, 16>>,
    <<8579, 8579, 1, 1>>, <<9398, 9423, 1, 26>>, <<11264, 11311, 1, 48>>, <<11360, 11360, 1, 1>>,
    <<11362, 11362, 1, -10743>>, <<11363, 11363, 1, -3814>>, <<11364, 11364, 1, -10727>>, <<11367, 11371, 2, 1>>,
    <<11373, 11373, 1, -10780>>, <<11374, 11374, 1, -10749>>, <<11375, 11375, 1, -10783>>, <<11376, 11376, 1, -10782>>,
    <<11378, 11378, 1, 1>>, <<11381, 11381, 1, 1>>, <<11390, 11391, 1, -10815>>, <<11392, 11490, 2, 1>>,
    <<11499, 11501, 2, 1>>, <<11506, 11506, 1, 1>>, <<42560, 42604, 2, 1>>, <<42624, 42650, 2, 1>>,
    <<42786, 42798, 2, 1>>, <<42802, 42862, 2, 1>>, <<42873, 42875, 2, 1>>, <<42877, 42877, 1, -35332>>,
    <<42878, 42886, 2, 1>>, <<42891, 42891, 1, 1>>, <<42893, 42893, 1, -42280>>, <<42896, 42898, 2, 1>>,
    <<42902, 42920, 2, 1>>, <<42922, 42922, 1, -42308>>, <<42923, 42923, 1, -42319>>, <<42924, 42924, 1, -42315>>,
    <<42925, 42925, 1, -42305>>, <<42926, 42926, 1, -42308>>, <<42928, 42928, 1, -42258>>, <<42929, 42929, 1, -42282>>,
    <<42930, 42930, 1, -42261>>, <<42931, 42931, 1, 928>>, <<42932, 42946, 2, 1>>, <<42948, 42948, 1, -48>>,
    <<42949, 42949, 1, -42307>>, <<42950, 42950, 1, -35384>>, <<42951, 42953, 2, 1>>, <<42960, 42960, 1, 1>>,
    <<42966, 42968, 2, 1>>, <<42997, 42997, 1, 1>>, <<65313, 65338, 1, 32>>, <<66560, 66599, 1, 40>>,
    <<66736, 66771, 1, 40>>, <<66928, 66964, 2, 39>>, <<66929, 66937, 2, 39>>, <<66941, 66953, 2, 39>>,
    <<66957, 66961, 2, 39>>, <<66965, 66965, 1, 39>>, <<68736, 68786, 1, 64>>, <<71840, 71871, 1, 32>>,
    <<93760, 93791, 1, 32>>, <<125184, 125217, 1, 34>> }

IsCaseIgnorable(c) == InRanges(c, CaseIgnorableRanges)
IsCased(c) == InRanges(c, CasedRanges)

\* the capital sigma at s[i] is final: behind a cased letter and not before one,
\* case-ignorable characters between them skipped
FinalSigma(s, i) ==
    /\ \E j \in 1..(i - 1) :
          /\ IsCased(s[j])
          /\ \A k \in (j + 1)..(i - 1) : IsCaseIgnorable(s[k])
    /\ ~\E j \in (i + 1)..Len(s) :
          /\ IsCased(s[j])
          /\ \A k \in (i + 1)..(j - 1) : IsCaseIgnorable(s[k])

\* the lower-case mapping of one character: c + delta of the rule c is in, or c
LowerOf(c, rule) == IF rule = {} THEN c ELSE c + (CHOOSE r \in rule : TRUE)[4]

LowerRuleOf(c) == {r \in LowerRules : r[1] <= c /\ c <= r[2] /\ (c - r[1]) % r[3] = 0}

\* what str.lower() puts for the character s[i]: the capital I with dot (U+0130)
\* becomes i and a combining dot, the capital sigma (U+03A3) the final or the other
\* small sigma, every other character its mapping or itself
LowerChar(s, i) ==
    IF s[i] = 304 THEN <<105, 775>>
    ELSE IF s[i] = 931 THEN (IF FinalSigma(s, i) THEN <<962>> ELSE <<963>>)
    ELSE <<LowerOf(s[i], LowerRuleOf(s[i]))>>

RECURSIVE Concat(_)
Concat(parts) == IF parts = <<>> THEN <<>> ELSE Head(parts) \o Concat(Tail(parts))

\* str.lower()
Lower(s) == Concat([i \in 1..Len(s) |-> LowerChar(s, i)])

\* s.count(sub) > 0
Contains(s, sub) ==
    \E i \in 1..(Len(s) - Len(sub) + 1) : SubSeq(s, i, i + Len(sub) - 1) = sub

\* \w of the regular expressions
IsWordChar(c) == InRanges(c, WordRanges)

\* len(re.findall(r'\b\w+\b', s)): the number of maximal runs of word characters
WordCount(s) ==
    Cardinality({i \in 1..Len(s) : IsWordChar(s[i]) /\ (i = 1 \/ ~IsWordChar(s[i - 1]))})

\* not transcript or len(transcript.strip()) == 0
IsBlank(transcript) == \A i \in 1..Len(transcript) : transcript[i] \in Whitespace

RECURSIVE SumInts(_)
SumInts(s) == IF s = <<>> THEN 0 ELSE Head(s) + SumInts(Tail(s))

\* the job_keywords process reads when input_data has none
DefaultJobKeywords ==
    << Str(<<"s", "t", "r", "e", "a", "m", "i", "n", "g">>), Str(<<"c", "o", "n", "t", "e", "n", "t">>),
       Str(<<"m", "e", "d", "i", "a">>), Str(<<"p", "r", "o", "d", "u", "c", "t", "i", "o", "n">>),
       Str(<<"d", "i", "g", "i", "t", "a", "l">>), Str(<<"c", "r", "e", "a", "t", "i", "v", "e">>) >>

\* ContentAnalyzer._analyze_keywords(transcript, job_keywords), without keyword_counts
\* and top_words
KeywordResults(job_keywords, matched_keywords) ==
    [keyword_relevance |-> IF job_keywords # <<>>
                           THEN F(Len(matched_keywords), Len(job_keywords))
                           ELSE FZero,
     matched_keywords  |-> matched_keywords]

MatchedKeywords(transcript_lower, job_keywords) ==
    SelectSeq(job_keywords, LAMBDA keyword : Contains(transcript_lower, Lower(keyword)))

AnalyzeKeywords(transcript, job_keywords) ==
    KeywordResults(job_keywords, MatchedKeywords(Lower(transcript), job_keywords))

\* the segments of at most max_length characters that _analyze_sentiment joins the
\* sentences into
MaxSegmentLength == 512

RECURSIVE SegmentsFrom(_, _, _)
SegmentsFrom(sentences, current_segment, segments) ==
    IF sentences = <<>>
    THEN IF current_segment # <<>> THEN Append(segments, current_segment) ELSE segments
    ELSE LET sentence == Head(sentences)
         IN  IF Len(current_segment) + 1 + Len(sentence) <= MaxSegmentLength
             THEN SegmentsFrom(Tail(sentences),
                               IF current_segment # <<>>
                               THEN current_segment \o Str(<<" ">>) \o sentence
                               ELSE sentence,
                               segments)
             ELSE SegmentsFrom(Tail(sentences), sentence,
                               Append(segments, current_segment))

\* the score of one segment from the answer of the English sentiment model
SentimentScore(answer) ==
    IF answer.label = "POSITIVE" THEN answer.score
    ELSE FSub(F(5, 10), FSub(answer.score, F(5, 10)))

\* ContentAnalyzer._analyze_sentiment(transcript), the confidence score; sentences is
\* what sent_tokenize returns and answers[i] what the sentiment model returns for the
\* i-th segment
MeanOrHalf(sentiment_scores) ==
    IF sentiment_scores # <<>>
    THEN FDivInt(FSum(sentiment_scores), Len(sentiment_scores))
    ELSE F(5, 10)

SentimentScores(segments, answers) ==
    [i \in 1..Len(segments) |-> SentimentScore(answers[i])]

AnalyzeSentiment(sentences, answers) ==
    MeanOrHalf(SentimentScores(SegmentsFrom(sentences, <<>>, <<>>), answers))

\* the clarity score of an English transcript from its words per sentence
ClarityOfLength(words_per_sentence) ==
    IF words_per_sentence = FZero THEN FZero
    ELSE IF FLt(words_per_sentence, F(5, 1)) THEN F(5, 10)
    ELSE IF FLe(words_per_sentence, F(20, 1)) THEN F(1, 1)
    ELSE FSub(F(1, 1),
              FMin(F(1, 1), FDivInt(FSub(words_per_sentence, F(20, 1)), 15)))

\* ContentAnalyzer._calculate_clarity(transcript) for English, without
\* vocabulary_richness, words_per_sentence and unique_words; sentences is what
\* sent_tokenize returns
\* min(1.0, np.mean(sentence_lengths) / 25); of an empty list np.mean is nan, and
\* min(1.0, nan) is 1.0
SentenceComplexity(sentence_lengths) ==
    IF sentence_lengths = <<>> THEN F(1, 1)
    ELSE FMin(F(1, 1), FDivInt(F(SumInts(sentence_lengths), Len(sentence_lengths)), 25))

ClarityResults(sentence_count, word_count, sentence_lengths) ==
    [clarity             |-> ClarityOfLength(IF sentence_count > 0
                                             THEN F(word_count, sentence_count)
                                             ELSE FZero),
     sentence_complexity |-> SentenceComplexity(sentence_lengths),
     sentence_count      |-> sentence_count,
     word_count          |-> word_count]

CalculateClarity(transcript, sentences) ==
    ClarityResults(Len(sentences), WordCount(transcript),
                   [i \in 1..Len(sentences) |-> WordCount(sentences[i])])

\* the different words of a list, in the order they first occur
RECURSIVE Distinct(_)
Distinct(words) ==
    IF words = <<>> THEN <<>>
    ELSE LET d == Distinct(SubSeq(words, 1, Len(words) - 1))
             w == words[Len(words)]
         IN  IF w \in Range(d) THEN d ELSE Append(d, w)

\* Counter(words)[w]
CountOf(words, w) == Cardinality({i \in 1..Len(words) : words[i] = w})

\* sorted by count, descending, words of equal count in the order first met
RECURSIVE SortedByCount(_)
SortedByCount(items) ==
    IF items = <<>> THEN <<>>
    ELSE LET p == items[Len(items)]
             s == SortedByCount(SubSeq(items, 1, Len(items) - 1))
             k == Cardinality({i \in 1..Len(s) : s[i][2] >= p[2]})
         IN  SubSeq(s, 1, k) \o <<p>> \o SubSeq(s, k + 1, Len(s))

\* Counter(words).most_common(n)
FirstN(s, n) == SubSeq(s, 1, IntMin(n, Len(s)))

Counted(words, d) == [i \in 1..Len(d) |-> <<d[i], CountOf(words, d[i])>>]

MostCommon(words, n) == FirstN(SortedByCount(Counted(words, Distinct(words))), n)

\* ContentAnalyzer._analyze_topic_relevance for English, the relevance score;
\* job_words and transcript_words are what word_tokenize returns for the lower-case
\* job description and transcript, without the stop words and the tokens that are
\* not alphanumeric
RelevanceScore(matched_words, total_job_keywords) ==
    IF total_job_keywords > 0 THEN F(matched_words, total_job_keywords) ELSE FZero

TopicRelevance(transcript_words, top_job_words) ==
    RelevanceScore(
        SumInts([i \in 1..Len(top_job_words) |->
                    IntMin(top_job_words[i][2],
                           CountOf(transcript_words, top_job_words[i][1]))]),
        SumInts([i \in 1..Len(top_job_words) |-> top_job_words[i][2]]))

AnalyzeTopicRelevance(transcript_words, job_words) ==
    TopicRelevance(transcript_words, MostCommon(job_words, 20))

\* what ContentAnalyzer.process returns for an empty transcript
ContentDefaults ==
    [keyword_relevance |-> FZero, confidence |-> FZero, clarity |-> FZero,
     matched_keywords |-> <<>>, sentence_count |-> 0, word_count |-> 0]

\* ContentAnalyzer.process(input_data) of an English analyzer. input_data has
\* 'transcript' and may have 'job_keywords' and 'job_description'; beside them it
\* carries what the libraries answer for these texts: sentences (sent_tokenize),
\* transcript_words and job_words (word_tokenize and the stop word filter), sentiment
\* (the sentiment model, one answer for each segment) and raises (the sentiment model
\* raises). Of the result the keys keyword_counts, top_words, sentiment_details,
\* vocabulary_richness, words_per_sentence, unique_words and topic_analysis are left
\* out.
ContentResult(keyword_results, confidence_score, clarity_results, topic_relevance, content_quality, described) ==
    keyword_results @@ [confidence |-> confidence_score] @@ clarity_results
    @@ [content_quality |-> content_quality,
        ratings |-> ContentGenerateRatings(
                        [keyword_relevance   |-> keyword_results.keyword_relevance,
                         confidence          |-> confidence_score,
                         clarity             |-> clarity_results.clarity,
                         sentence_complexity |-> clarity_results.sentence_complexity,
                         content_quality     |-> content_quality,
                         matched_keywords    |-> keyword_results.matched_keywords,
                         topic_relevance     |-> topic_relevance])]
    @@ (IF described THEN [topic_relevance |-> topic_relevance] ELSE <<>>)

ContentAnalysis(keyword_results, confidence_score, clarity_results, topic_relevance, described) ==
    ContentResult(keyword_results, confidence_score, clarity_results, topic_relevance,
                  ContentQuality(clarity_results.clarity, confidence_score,
                                 keyword_results.keyword_relevance, topic_relevance),
                  described)

ContentAnalyzerProcess(input_data) ==
    IF IsBlank(input_data.transcript) THEN ContentDefaults
    ELSE IF input_data.raises THEN [error |-> "content analysis failed"] @@ ContentDefaults
    ELSE ContentAnalysis(
             AnalyzeKeywords(input_data.transcript,
                             Get(input_data, "job_keywords", DefaultJobKeywords)),
             AnalyzeSentiment(input_data.sentences, input_data.sentiment),
             CalculateClarity(input_data.transcript, input_data.sentences),
             IF Get(input_data, "job_description", <<>>) # <<>>
             THEN AnalyzeTopicRelevance(input_data.transcript_words, input_data.job_words)
             ELSE FZero,
             Get(input_data, "job_description", <<>>) # <<>>)

\* an exception that leaves the method
Raised(name) == [raised |-> name]

FrameResult(frame) ==
    [eye_contact |-> IF frame.has_face THEN frame.eye_score ELSE FZero,
     expression  |-> IF frame.has_face THEN frame.expression_score ELSE FZero,
     posture     |-> IF frame.has_pose THEN frame.posture_score ELSE FZero,
     has_face    |-> frame.has_face,
     has_pose    |-> frame.has_pose]

FacesOf(frames) == SelectSeq(frames, LAMBDA f : f.has_face)
PosesOf(frames) == SelectSeq(frames, LAMBDA f : f.has_pose)

\* VisualAnalyzer.process; video.frames holds for each frame whether cv2 and mediapipe
\* can process it and what they detect in it, video.expression_std is what np.std returns
\* for the expression scores
VisualAnalyzerProcess(video) ==
    LET frames == video.frames
        eye_contact_scores == [i \in 1..Len(FacesOf(frames)) |-> FacesOf(frames)[i].eye_score]
        posture_scores == [i \in 1..Len(PosesOf(frames)) |-> PosesOf(frames)[i].posture_score]
        result0 ==
            [eye_contact          |-> MeanOrZero(eye_contact_scores),
             expression_variation |-> IF eye_contact_scores # <<>>
                                      THEN video.expression_std ELSE FZero,
             posture              |-> MeanOrZero(posture_scores),
             face_detection_rate  |-> IF frames # <<>>
                                      THEN F(Len(eye_contact_scores), Len(frames))
                                      ELSE FZero,
             frame_results        |-> [i \in 1..Len(frames) |-> FrameResult(frames[i])]]
    IN  IF \E i \in 1..Len(frames) : ~frames[i].readable
        THEN Raised("cv2.error")
        ELSE VisualGenerateAnalysisSummary(result0) @@ result0

\* ------------------------------------------------------------------------
\* Pipeline (src/pipeline.py) and the modules it calls (src/modules)
\* ------------------------------------------------------------------------
\* what a call gives back: a value it returns or an exception that leaves it
Returned(value) == [returned |-> value]
IsRaised(outcome) == "raised" \in DOMAIN outcome

\* a path is the sequence of its characters
\* s.rfind(c), counted from 1: 0 when c is not in s
LastIndexOf(s, c) ==
    IF \E i \in 1..Len(s) : s[i] = c
    THEN SetMax({i \in 1..Len(s) : s[i] = c})
    ELSE 0

\* os.path.basename(path): what follows the last "/"
Basename(path) == SubSeq(path, LastIndexOf(path, "/") + 1, Len(path))

\* os.path.splitext(path): the extension starts at the last "." of the last
\* component, unless only dots stand before it in that component
Splitext(path) ==
    LET sepIndex == LastIndexOf(path, "/")
        dotIndex == LastIndexOf(path, ".")
    IN  IF dotIndex > sepIndex /\ \E i \in (sepIndex + 1)..(dotIndex - 1) : path[i] # "."
        THEN <<SubSeq(path, 1, dotIndex - 1), SubSeq(path, dotIndex, Len(path))>>
        ELSE <<path, <<>> >>

\* VideoFrameExtractor._generate_mock_frames(count=10)
GenerateMockFrames == [i \in 1..10 |-> "random frame"]

\* VideoFrameExtractor._generate_mock_metadata
GenerateMockMetadata ==
    [fps |-> F(30, 1), frame_count |-> 900, width |-> 640, height |-> 480,
     duration |-> F(30, 1), filename |-> <<"m", "o", "c", "k", "_", "v", "i", "d", "e", "o", ".", "m", "p", "4">>]

\* VideoFrameExtractor.extract_frames(video_path, sample_rate=30); video_path stands
\* for the path and for what os.path.exists and cv2.VideoCapture report about it
ExtractFrames(video_path) ==
    IF ~video_path.exists
    THEN Returned(<<GenerateMockFrames, GenerateMockMetadata>>)
    ELSE IF video_path.capture_raises
    THEN Returned(<<GenerateMockFrames, GenerateMockMetadata>>)
    ELSE LET fps         == video_path.fps
             frame_count == video_path.frame_count
             metadata == [fps |-> F(fps, 1), frame_count |-> frame_count,
                          width |-> video_path.width, height |-> video_path.height,
                          duration |-> IF fps > 0 THEN F(frame_count, fps) ELSE 0,
                          filename |-> Basename(video_path.name)]
             \* count % sample_rate == 0 for count = 0, 30, 60, ...
             frames == [i \in 1..((frame_count + 29) \div 30) |-> [frame |-> 30 * (i - 1)]]
         IN  Returned(<<frames, metadata>>)

\* AudioExtractorTranscriber._mock_extract_audio: f"temp_{base_name}.wav"
MockExtractAudio(video_path) ==
    LET base_name == Splitext(Basename(video_path.name))[1]
    IN  <<"t", "e", "m", "p", "_">> \o base_name \o <<".", "w", "a", "v">>

\* AudioExtractorTranscriber._get_mock_audio_path
GetMockAudioPath ==
    <<"t", "e", "m", "p", "_", "m", "o", "c", "k", "_">>
    \o <<"a", "u", "d", "i", "o", ".", "w", "a", "v">>

\* AudioExtractorTranscriber._get_mock_transcript: " ".join(paragraphs), each of the
\* five paragraphs a run of characters with no white space in it
GetMockTranscript ==
    << <<"paragraph 1">>, <<"paragraph 2">>, <<"paragraph 3">>, <<"paragraph 4">>,
       <<"paragraph 5">> >>

\* transcript.split(): the words of the pieces joined by " "
RECURSIVE Split(_)
Split(transcript) ==
    IF transcript = <<>> THEN <<>> ELSE Head(transcript) \o Split(Tail(transcript))

\* AudioExtractorTranscriber._get_mock_chunks(transcript): range(0, len(words),
\* chunk_size) raises ValueError for a step of 0 (the time stamps, drawn from
\* random.uniform, are not part of the chunks here)
GetMockChunks(transcript) ==
    LET words      == Split(transcript)
        chunk_size == Len(words) \div 10
    IN  IF chunk_size = 0 THEN Raised("ValueError")
        ELSE Returned([k \in 1..((Len(words) + chunk_size - 1) \div chunk_size) |->
                        [text |-> SubSeq(words, (k - 1) * chunk_size + 1,
                                         IntMin(k * chunk_size, Len(words)))]])

\* AudioExtractorTranscriber._mock_transcribe(audio_path)
MockTranscribe(audio_path) ==
    LET transcript == GetMockTranscript
        chunks     == GetMockChunks(transcript)
    IN  IF IsRaised(chunks) THEN chunks ELSE Returned(<<transcript, chunks.returned>>)

\* AudioExtractorTranscriber.process(video_path): the except branch calls
\* _get_mock_chunks() again, outside any try
AudioExtractorProcess(video_path) ==
    LET audio_path  == MockExtractAudio(video_path)
        transcribed == MockTranscribe(audio_path)
        chunks      == GetMockChunks(GetMockTranscript)
    IN  IF ~IsRaised(transcribed)
        THEN Returned(<<audio_path, transcribed.returned[1], transcribed.returned[2]>>)
        ELSE IF IsRaised(chunks) THEN chunks
        ELSE Returned(<<GetMockAudioPath, GetMockTranscript, chunks.returned>>)

\* modules.visual_analyzer.VisualAnalyzer.analyze(frames); rnd holds the values
\* random.uniform and random.choice return (the random fields of each frame result
\* are not part of frame_results here)
VisualAnalyze(frames, rnd) ==
    LET uniform == {"eye_contact", "expression_variation", "posture",
                    "face_detection_rate"}
    IN  Returned([k \in uniform |-> Round2(rnd[k])]
                 @@ [expression    |-> rnd.expression,
                     frame_results |-> [i \in 1..Len(frames) |-> [frame_index |-> i - 1]]])

\* modules.audio_analyzer.AudioAnalyzer.analyze(audio_path): the same keys whether the
\* file exists or _generate_mock_results is used
AudioAnalyze(audio_path, rnd) ==
    LET uniform == {"pitch_variation", "volume_variation", "clarity"}
    IN  Returned([k \in uniform |-> Round2(rnd[k])]
                 @@ [speaking_rate |-> F(rnd.speaking_rate, 1),
                     pause_count   |-> rnd.pause_count])

\* modules.content_analyzer.ContentAnalyzer.analyze(transcript, job_keywords): the
\* content FeatureSet of the content feature provider
ContentAnalyze(transcript, job_keywords, rnd) ==
    Returned([keyword_relevance |-> rnd.keyword_relevance,
              confidence        |-> rnd.confidence,
              clarity           |-> rnd.content_clarity,
              matched_keywords  |-> job_keywords,
              sentence_count    |-> Len(transcript),
              word_count        |-> Len(Split(transcript))])

\* modules.scorer.Scorer.calculate_scores(visual_features, audio_features,
\* content_features): the scoring core on the three FeatureSets
CalculateScores(visual_features, audio_features, content_features) ==
    Returned(process(DefaultWeights, FeatureWeights,
                     [visual_features  |-> visual_features,
                      audio_features   |-> audio_features,
                      content_features |-> content_features]))

\* the steps of the try block of Pipeline.process_video, in order
Steps ==
    <<"video_extractor.extract_frames", "audio_extractor.process",
      "visual_analyzer.analyze", "audio_analyzer.analyze",
      "content_analyzer.analyze", "scorer.calculate_scores">>

StepIndex(step) == CHOOSE i \in 1..Len(Steps) : Steps[i] = step

\* where control is after step returned
After(step) ==
    IF StepIndex(step) < Len(Steps) THEN Steps[StepIndex(step) + 1] ELSE "returned"

\* the call a step of Pipeline.process_video makes, on the locals l
StepCall(step, l, rnd) ==
    IF step = "video_extractor.extract_frames" THEN ExtractFrames(l.video_path)
    ELSE IF step = "audio_extractor.process" THEN AudioExtractorProcess(l.video_path)
    ELSE IF step = "visual_analyzer.analyze" THEN VisualAnalyze(l.frames, rnd)
    ELSE IF step = "audio_analyzer.analyze" THEN AudioAnalyze(l.audio_path, rnd)
    ELSE IF step = "content_analyzer.analyze"
    THEN ContentAnalyze(l.transcript, l.job_keywords, rnd)
    ELSE CalculateScores(l.visual_features, l.audio_features, l.content_features)

\* what a step does with the value its call returned: the keys of result it sets and
\* the locals it binds
StepBinds(step, value) ==
    IF step = "video_extractor.extract_frames"
    THEN [result |-> [metadata |-> value[2]], locals |-> [frames |-> value[1]]]
    ELSE IF step = "audio_extractor.process"
    THEN [result |-> [transcript |-> value[2], transcript_chunks |-> value[3]],
          locals |-> [audio_path |-> value[1], transcript |-> value[2]]]
    ELSE IF step = "visual_analyzer.analyze"
    THEN [result |-> [visual_features |-> value], locals |-> [visual_features |-> value]]
    ELSE IF step = "audio_analyzer.analyze"
    THEN [result |-> [audio_features |-> value], locals |-> [audio_features |-> value]]
    ELSE IF step = "content_analyzer.analyze"
    THEN [result |-> [content_features |-> value],
          locals |-> [content_features |-> value]]
    ELSE [result |-> [scores |-> value], locals |-> [scores |-> value]]

\* how many time.sleep calls the call of a step passes: two in
\* AudioExtractorTranscriber.process (_mock_extract_audio, _mock_transcribe), one in
\* VisualAnalyzer.analyze, one in AudioAnalyzer.analyze when the audio file exists and
\* none when it does not
Sleeps(step) ==
    IF step = "audio_extractor.process" THEN {2}
    ELSE IF step = "visual_analyzer.analyze" THEN {1}
    ELSE IF step = "audio_analyzer.analyze" THEN {0, 1}
    ELSE {0}

\* process_video as a step leaves it: r is the run so far, outcome what the step's
\* call gave back; an exception is caught by the except clause
AfterStep(step, r, outcome) ==
    IF IsRaised(outcome) THEN [r EXCEPT !.exception = outcome, !.sleeps = 0]
    ELSE [r EXCEPT !.result = StepBinds(step, outcome.returned).result @@ @,
                   !.locals = StepBinds(step, outcome.returned).locals @@ @,
                   !.sleeps = 0]

\* ------------------------------------------------------------------------
\* Inputs
\* ------------------------------------------------------------------------
GridDen == 50
MidLevel == 29
MockStride == 250
MaxCalls == 3
RatingDen == 20

\* metric values k / GridDen
Level(k) == F(k, GridDen)

VisualKeys == {"eye_contact", "posture", "expression_variation"}
AudioKeys == {"speaking_rate", "pitch_variation", "volume_variation", "clarity"}
ContentKeys == {"keyword_relevance", "confidence", "clarity"}

\* a modality key that input_data does not have
Absent == [Absent |-> TRUE]

MkInput(vf, af, cf) ==
    LET present == (IF vf = Absent THEN {} ELSE {"visual_features"})
                   \cup (IF af = Absent THEN {} ELSE {"audio_features"})
                   \cup (IF cf = Absent THEN {} ELSE {"content_features"})
    IN  [k \in present |-> IF k = "visual_features" THEN vf
                           ELSE IF k = "audio_features" THEN af ELSE cf]

\* every FeatureSet over a subset of keys with values in levels
FeatureSets(keys, levels) == UNION {[S -> levels] : S \in SUBSET keys}

Full(keys, v) == [k \in keys |-> v]

\* what a failed provider returns (src/audio_analyzer.py:33)
ErrorOnly == [k \in {"error"} |-> "analysis failed"]

CoarseLevels == {Level(0), Level(MidLevel), Level(GridDen)}

\* the FeatureSets of the two modalities that are not enumerated in full
Others(k1, k2) ==
    { <<Absent, Absent>>, <<EmptyDict, None>>, <<ErrorOnly, Full(k2, Level(GridDen))>>,
      <<Full(k1, Level(GridDen)), Full(k2, Level(MidLevel))>> }

\* one modality ranges over all of its FeatureSets
RichInputs ==
    {MkInput(vf, o[1], o[2]) : vf \in FeatureSets(VisualKeys, CoarseLevels),
                               o \in Others(AudioKeys, ContentKeys)}
    \cup
    {MkInput(o[1], af, o[2]) : af \in FeatureSets(AudioKeys, CoarseLevels),
                               o \in Others(VisualKeys, ContentKeys)}
    \cup
    {MkInput(o[1], o[2], cf) : cf \in FeatureSets(ContentKeys, CoarseLevels),
                               o \in Others(VisualKeys, AudioKeys)}

\* every metric of every modality has the same value
UniformInputs ==
    {MkInput(Full(VisualKeys, Level(k)), Full(AudioKeys, Level(k)),
             Full(ContentKeys, Level(k))) : k \in 0..GridDen}

Inputs == RichInputs \cup UniformInputs

\* the path interview.mp4
InterviewPath == <<"i", "n", "t", "e", "r", "v", "i", "e", "w", ".", "m", "p", "4">>

\* the arguments of Pipeline.process_video: a path with no file, a file on which
\* cv2 raises, files with no frame, two frames and four frames, a file reporting 0 fps;
\* the paths have a directory, one or two extensions, none, or a leading dot
VideoFile(name, exists, capture_raises, fps, frame_count) ==
    [name |-> name, exists |-> exists, capture_raises |-> capture_raises,
     fps |-> fps, frame_count |-> frame_count, width |-> 640, height |-> 480]

PipelineVideos ==
    { VideoFile(<<"v", "i", "d", "e", "o", "s", "/", "m", "i", "s", "s", "i", "n", "g", ".", "m", "p", "4">>,
                 FALSE, FALSE, 0, 0),
      VideoFile(<<"c", "o", "r", "r", "u", "p", "t", ".", "m", "p", "4">>,
                 TRUE, TRUE, 0, 0),
      VideoFile(<<"e", "m", "p", "t", "y", ".", "t", "a", "r", ".", "g", "z">>,
                 TRUE, FALSE, 30, 0),
      VideoFile(<<"c", "l", "i", "p", "s", "/", "s", "h", "o", "r", "t", ".", "m", "p", "4">>,
                 TRUE, FALSE, 30, 45),
      VideoFile(<<"l", "o", "n", "g">>,
                 TRUE, FALSE, 25, 100),
      VideoFile(<<".", "s", "t", "i", "l", "l">>,
                 TRUE, FALSE, 0, 31) }

PipelineKeywords == {<<>>, <<"python">>, <<"python", "sql">>}
Candidates == {"candidate A", "candidate B", "candidate C"}

\* the values the random generators of the mock analyzers are taken to return: the
\* ends of their ranges
PipelineDraws ==
    { [eye_contact |-> F(65, 100), expression |-> "neutral",
       expression_variation |-> F(5, 10), posture |-> F(7, 10),
       face_detection_rate |-> F(85, 100), speaking_rate |-> 120,
       pitch_variation |-> F(6, 10), volume_variation |-> F(6, 10),
       pause_count |-> 5, clarity |-> F(75, 100),
       keyword_relevance |-> FZero, confidence |-> FZero, content_clarity |-> FZero],
      [eye_contact |-> F(95, 100), expression |-> "confident",
       expression_variation |-> F(9, 10), posture |-> F(95, 100),
       face_detection_rate |-> F(98, 100), speaking_rate |-> 180,
       pitch_variation |-> F(9, 10), volume_variation |-> F(9, 10),
       pause_count |-> 15, clarity |-> F(95, 100),
       keyword_relevance |-> F(1, 1), confidence |-> F(1, 1),
       content_clarity |-> F(1, 1)] }

\* ------------------------------------------------------------------------
\* State
\* ------------------------------------------------------------------------
VARIABLES
    weights,          \* Scorer.weights, None before the Scorer is constructed
    feature_weights,  \* Scorer.feature_weights
    input_data,       \* argument of the last call of Scorer.process
    result,           \* what that call returned
    mock_result,      \* what the last MockPipeline.process_video returned
    history,          \* the calls of Scorer.process made on this Scorer, oldest first
    analyzer_call,    \* the analyzer method that returned last and its argument
    analyzer_result,  \* what that call returned
    pc,               \* where the call that is under way waits (process_video of
                      \* either pipeline, AudioAnalyzer.analyze), "idle" if none is
    run               \* the locals of that call

vars == <<weights, feature_weights, input_data, result, mock_result, history,
          analyzer_call, analyzer_result, pc, run>>
scorerVars == <<weights, feature_weights, input_data, result, history>>
analyzerVars == <<analyzer_call, analyzer_result>>
pipelineVars == <<pc, run>>

\* a process that overwrites every entry of self.weights with the visual weight
AfterProcessReweighted(w, fw, d) ==
    [weights |-> [k \in DOMAIN w |-> w["visual"]], feature_weights |-> fw, input_data |-> d]

\* the Scorer and the argument as a call of process(d) leaves them: process reads self
\* and input_data with [] and .get and assigns to locals only
AfterProcess(w, fw, d) == [weights |-> w, feature_weights |-> fw, input_data |-> d]

\* the record of one call: the argument as passed, as left, and the value returned
CallRecord(argument, left, returned) ==
    [argument |-> argument, input_data |-> left, result |-> returned]

\* Scorer.__init__(weights=arg)
Construct(arg) ==
    /\ weights = None
    /\ weights' = ScorerInit(arg).weights
    /\ feature_weights' = ScorerInit(arg).feature_weights
    /\ UNCHANGED <<input_data, result, mock_result, history, analyzerVars, pipelineVars>>

\* Scorer.process(d), the first call on this Scorer
Process(d) ==
    /\ weights # None
    /\ result = None
    /\ input_data' = AfterProcess(weights, feature_weights, d).input_data
    /\ result' = process(weights, feature_weights, d)
    /\ weights' = AfterProcess(weights, feature_weights, d).weights
    /\ feature_weights' = AfterProcess(weights, feature_weights, d).feature_weights
    /\ history' = Append(history, CallRecord(d, input_data', result'))
    /\ UNCHANGED <<mock_result, analyzerVars, pipelineVars>>

\* Scorer.process(d), a later call on the same Scorer
ProcessAgain(d) ==
    /\ result # None
    /\ Len(history) < MaxCalls
    /\ input_data' = AfterProcess(weights, feature_weights, d).input_data
    /\ result' = process(weights, feature_weights, d)
    /\ weights' = AfterProcess(weights, feature_weights, d).weights
    /\ feature_weights' = AfterProcess(weights, feature_weights, d).feature_weights
    /\ history' = Append(history, CallRecord(d, input_data', result'))
    /\ UNCHANGED <<mock_result, analyzerVars, pipelineVars>>

\* where MockPipeline.process_video waits: its four time.sleep calls
MockWaits == <<"mock.sleep line 30", "mock.sleep line 35", "mock.sleep line 40",
               "mock.sleep line 45">>

\* MockPipeline.process_video(video_path, job_keywords, candidate_name), the first
\* call, up to time.sleep(1); job_keywords is the caller's list, held by reference
MockProcessVideo(video_path, job_keywords, candidate_name) ==
    /\ pc = "idle"
    /\ mock_result = None
    /\ pc' = MockWaits[1]
    /\ run' = [locals |-> [video_path     |-> video_path,
                           job_keywords   |-> job_keywords,
                           candidate_name |-> candidate_name]]
    /\ UNCHANGED <<scorerVars, mock_result, analyzerVars>>

\* one of the three analysis blocks, from the end of a time.sleep to the next one:
\* round(random.uniform(6.0, 9.5), 2) is bound; u is the value drawn
MockAnalysis(u) ==
    /\ \E i \in 1..3 :
         /\ pc = MockWaits[i]
         /\ pc' = MockWaits[i + 1]
         /\ run' = [run EXCEPT !.locals = [k \in {MockScores[i]} |-> Round2(u)] @@ @]
    /\ UNCHANGED <<scorerVars, mock_result, analyzerVars>>

\* where MockPipeline.process_video logs its last message: self.logger.info of line
\* 54 runs the handlers of the logger, which take a lock and write
MockLog == "mock.logger.info line 54"

\* from the end of the last time.sleep to the logger.info of line 54: overall_score,
\* strengths and improvements are bound, or random.choice raises the IndexError
MockSummarize(choice) ==
    /\ pc = MockWaits[4]
    /\ choice \in (IF run.locals.job_keywords = <<>> THEN {""}
                   ELSE Range(run.locals.job_keywords))
    /\ IF StrengthsRaises(run.locals.content_score, run.locals.job_keywords)
       THEN /\ mock_result' = IndexError
            /\ pc' = "idle"
            /\ run' = None
       ELSE /\ mock_result' = mock_result
            /\ pc' = MockLog
            /\ run' = [run EXCEPT !.locals = MockSummary(@, choice) @@ @]
    /\ UNCHANGED <<scorerVars, analyzerVars>>

\* from the logger.info of line 54 to the return
MockProcessVideoReturn ==
    /\ pc = MockLog
    /\ mock_result' = MockProcessVideoResult(run.locals)
    /\ pc' = "idle"
    /\ run' = None
    /\ UNCHANGED <<scorerVars, analyzerVars>>

\* another thread changes the content of the list it passed as job_keywords while
\* process_video of either pipeline runs (during a time.sleep, or while line 54 of
\* the mock pipeline logs): the local job_keywords and result["job_keywords"] are
\* that list
KeywordsChanged(new) ==
    /\ pc \in Range(MockWaits) \cup {MockLog} \cup Range(Steps)
    /\ new # run.locals.job_keywords
    /\ run' = IF "result" \in DOMAIN run
              THEN [run EXCEPT !.locals.job_keywords = new, !.result.job_keywords = new]
              ELSE [run EXCEPT !.locals.job_keywords = new]
    /\ UNCHANGED <<pc, scorerVars, mock_result, analyzerVars>>

\* the analyzer methods, each called once on a fresh analyzer
\* AudioAnalyzer._generate_ratings(metrics)
AudioGenerateRatingsCall(metrics) ==
    /\ analyzer_call = None
    /\ analyzer_call' = [op |-> "AudioAnalyzer._generate_ratings", arg |-> metrics]
    /\ analyzer_result' = AudioGenerateRatings(metrics)
    /\ UNCHANGED <<scorerVars, mock_result, pipelineVars>>

\* ContentAnalyzer._generate_ratings(metrics)
ContentGenerateRatingsCall(metrics) ==
    /\ analyzer_call = None
    /\ analyzer_call' = [op |-> "ContentAnalyzer._generate_ratings", arg |-> metrics]
    /\ analyzer_result' = ContentGenerateRatings(metrics)
    /\ UNCHANGED <<scorerVars, mock_result, pipelineVars>>

\* VisualAnalyzer._generate_analysis_summary(metrics)
VisualGenerateAnalysisSummaryCall(metrics) ==
    /\ analyzer_call = None
    /\ analyzer_call' = [op |-> "VisualAnalyzer._generate_analysis_summary", arg |-> metrics]
    /\ analyzer_result' = VisualGenerateAnalysisSummary(metrics)
    /\ UNCHANGED <<scorerVars, mock_result, pipelineVars>>

\* AudioAnalyzer.process(input_data)
AudioAnalyzerProcessCall(audio) ==
    /\ analyzer_call = None
    /\ analyzer_call' = [op |-> "AudioAnalyzer.process", arg |-> audio]
    /\ analyzer_result' = AudioAnalyzerProcess(audio)
    /\ UNCHANGED <<scorerVars, mock_result, pipelineVars>>

\* ContentAnalyzer.process(input_data)
ContentAnalyzerProcessCall(text) ==
    /\ analyzer_call = None
    /\ analyzer_call' = [op |-> "ContentAnalyzer.process", arg |-> text]
    /\ analyzer_result' = ContentAnalyzerProcess(text)
    /\ UNCHANGED <<scorerVars, mock_result, pipelineVars>>

\* VisualAnalyzer.process(input_data)
VisualAnalyzerProcessCall(video) ==
    /\ analyzer_call = None
    /\ analyzer_call' = [op |-> "VisualAnalyzer.process", arg |-> video]
    /\ analyzer_result' = VisualAnalyzerProcess(video)
    /\ UNCHANGED <<scorerVars, mock_result, pipelineVars>>

\* where modules.audio_analyzer.AudioAnalyzer.analyze waits when the file exists
AudioWait == "audio_analyzer.sleep line 31"

\* modules.audio_analyzer.AudioAnalyzer.analyze(audio_path) when os.path.exists(
\* audio_path) is false: _generate_mock_results() is returned, without a wait
AudioAnalyzeMissing(audio_path, rnd) ==
    /\ analyzer_call = None
    /\ pc = "idle"
    /\ analyzer_call' = [op |-> "modules.AudioAnalyzer.analyze", arg |-> audio_path]
    /\ analyzer_result' = AudioAnalyze(audio_path, rnd).returned
    /\ UNCHANGED <<scorerVars, mock_result, pipelineVars>>

\* modules.audio_analyzer.AudioAnalyzer.analyze(audio_path) when the file exists, up
\* to time.sleep(0.8): nothing is drawn yet
AudioAnalyzeCall(audio_path) ==
    /\ analyzer_call = None
    /\ pc = "idle"
    /\ pc' = AudioWait
    /\ run' = [locals |-> [audio_path |-> audio_path]]
    /\ UNCHANGED <<scorerVars, mock_result, analyzerVars>>

\* from the end of time.sleep(0.8) to the return: the five draws and the result
AudioAnalyzeReturn(rnd) ==
    /\ pc = AudioWait
    /\ analyzer_call' = [op  |-> "modules.AudioAnalyzer.analyze",
                         arg |-> run.locals.audio_path]
    /\ analyzer_result' = AudioAnalyze(run.locals.audio_path, rnd).returned
    /\ pc' = "idle"
    /\ run' = None
    /\ UNCHANGED <<scorerVars, mock_result>>

\* Pipeline.process_video(video_path, job_keywords, candidate_name) up to the try
ProcessVideoStart(video_path, job_keywords, candidate_name) ==
    /\ pc = "idle"
    /\ pc' = Steps[1]
    /\ run' = [result |-> [candidate_name |-> candidate_name,
                           video_path     |-> video_path,
                           job_keywords   |-> job_keywords],
               locals |-> [video_path     |-> video_path,
                           job_keywords   |-> job_keywords,
                           candidate_name |-> candidate_name],
               exception |-> None,
               sleeps    |-> 0]
    /\ UNCHANGED <<scorerVars, mock_result, analyzerVars>>

\* the call of the current step runs up to its next time.sleep
PipelineSleep ==
    /\ pc \in Range(Steps)
    /\ \E n \in Sleeps(pc) : run.sleeps < n
    /\ run' = [run EXCEPT !.sleeps = @ + 1]
    /\ UNCHANGED <<pc, scorerVars, mock_result, analyzerVars>>

\* the rest of the current step, after the last time.sleep of its call: it binds its
\* locals and sets its keys of result, or control goes to the except clause; after
\* the last step result is returned
PipelineStep ==
    /\ pc \in Range(Steps)
    /\ run.sleeps \in Sleeps(pc)
    /\ \E rnd \in PipelineDraws :
         run' = AfterStep(pc, run, StepCall(pc, run.locals, rnd))
    /\ pc' = IF run'.exception # None THEN "except" ELSE After(pc)
    /\ UNCHANGED <<scorerVars, mock_result, analyzerVars>>

\* except Exception as e: logger.error(...); raise
ProcessVideoExcept ==
    /\ pc = "except"
    /\ pc' = "raised"
    /\ UNCHANGED <<run, scorerVars, mock_result, analyzerVars>>

\* a Scorer() with the default weights, not called yet
Init ==
    /\ weights = ScorerInit(None).weights
    /\ feature_weights = ScorerInit(None).feature_weights
    /\ input_data = None
    /\ result = None
    /\ mock_result = None
    /\ history = <<>>
    /\ analyzer_call = None
    /\ analyzer_result = None
    /\ pc = "idle"
    /\ run = None

Next == \E d \in Inputs : Process(d)

Spec == Init /\ [][Next]_vars

\* the values random.uniform(6.0, 9.5) is taken to return
MockDraws == {F(6000 + MockStride * i, 1000) : i \in 0..(3500 \div MockStride)}
MockKeywords == {<<>>, <<"python">>, <<"python", "sql">>}

\* what another thread puts into the list
ChangedKeywords == MockKeywords \cup {<<"cobol">>}

NextMock ==
    \/ \E kw \in MockKeywords : MockProcessVideo("interview.mp4", kw, "candidate")
    \/ \E u \in MockDraws : MockAnalysis(u)
    \/ \E choice \in {""} \cup UNION {Range(kw) : kw \in ChangedKeywords} :
          MockSummarize(choice)
    \/ MockProcessVideoReturn
    \/ \E new \in ChangedKeywords : KeywordsChanged(new)

SpecMock == Init /\ [][NextMock]_vars
\* the weights arguments a Scorer is constructed with
Weights3(v, a, c) == DictOf(<< <<"visual", v>>, <<"audio", a>>, <<"content", c>> >>)

WeightArgs ==
    { None, EmptyDict,
      Weights3(F(3, 10), F(3, 10), F(4, 10)),
      Weights3(F(2, 10), F(3, 10), F(5, 10)),
      Weights3(F(5, 10), F(5, 10), F(5, 10)),
      DictOf(<< <<"visual", F(5, 10)>>, <<"audio", F(5, 10)>> >>) }

\* before Scorer(...) has run
InitConfig ==
    /\ weights = None
    /\ feature_weights = None
    /\ input_data = None
    /\ result = None
    /\ mock_result = None
    /\ history = <<>>
    /\ analyzer_call = None
    /\ analyzer_result = None
    /\ pc = "idle"
    /\ run = None

NextConfig ==
    \/ \E arg \in WeightArgs : Construct(arg)
    \/ \E d \in UniformInputs : Process(d)

SpecConfig == InitConfig /\ [][NextConfig]_vars

\* the FeatureScoreTables the selector is exercised on
ScenarioValues == {F(90, 100), F(85, 100), F(80, 100), F(50, 100), F(40, 100), F(30, 100)}
TieLevels == { {F(50, 100), F(80, 100)}, {F(60, 100), F(70, 100)} }

\* visual and content metrics are a permutation of the six scenario values
RankedInputs ==
    {MkInput([k \in VisualKeys |-> f[<<"v", k>>]], Absent,
             [k \in ContentKeys |-> f[<<"c", k>>]]) :
        f \in {g \in [({"v"} \X VisualKeys) \cup ({"c"} \X ContentKeys) -> ScenarioValues] :
                  \A x, y \in DOMAIN g : x # y => g[x] # g[y]}}

\* all ten metrics present, each one of two values
TiedInputs ==
    UNION { {MkInput(vf, af, cf) : vf \in [VisualKeys -> L], af \in [AudioKeys -> L],
                                   cf \in [ContentKeys -> L]} : L \in TieLevels }

SelectorInputs == RankedInputs \cup TiedInputs \cup UniformInputs

NextSelector == \E d \in SelectorInputs : Process(d)

SpecSelector == Init /\ [][NextSelector]_vars

\* FeatureScoreTables of three or four entries, on which sorted_features[:3] and
\* sorted_features[-3:] share entries: one modality alone, its metrics below 60,
\* between 60 and 70, and above 70, or missing
OverlapLevels == {F(50, 100), F(65, 100), F(75, 100)}

OverlapInputs ==
    {MkInput(vf, Absent, Absent) : vf \in FeatureSets(VisualKeys, OverlapLevels)}
    \cup
    {MkInput(Absent, af, Absent) : af \in [AudioKeys -> OverlapLevels]}

NextOverlap == \E d \in OverlapInputs : Process(d)

SpecOverlap == Init /\ [][NextOverlap]_vars

\* the inputs of a sequence of calls on one Scorer
CallInputs ==
    { EmptyDict,
      MkInput(Full(VisualKeys, Level(GridDen)), ErrorOnly, Full(ContentKeys, Level(MidLevel))),
      MkInput(Full(VisualKeys, Level(0)), Absent, Absent),
      MkInput(Absent, Full(AudioKeys, Level(GridDen)), EmptyDict),
      MkInput(Full(VisualKeys, Level(MidLevel)), Full(AudioKeys, Level(MidLevel)),
              Full(ContentKeys, Level(MidLevel))),
      MkInput(Full(VisualKeys, Level(GridDen)), Full(AudioKeys, Level(GridDen)),
              Full(ContentKeys, Level(GridDen))) }

NextCalls ==
    \/ \E d \in CallInputs : Process(d)
    \/ \E d \in CallInputs : ProcessAgain(d)

SpecCalls == Init /\ [][NextCalls]_vars

\* the metrics the rating generators are called with
RatingGrid == {F(k, RatingDen) : k \in 0..RatingDen}
SpeechRatios == {F(0, 1), F(4, 10), F(7, 10)}
HalfStars == {F(k, 10) : k \in {0, 1, 3, 5, 7, 9, 10}}
Tenths == {F(k, 10) : k \in 0..10}

AudioMetrics ==
    [tempo : RatingGrid, pitch_variation : {F(0, 1), F(1, 10), F(3, 10)},
     volume_variation : {F(0, 1), F(1, 10), F(3, 10)},
     clarity : {F(0, 1), F(3, 10), F(6, 10), F(1, 1)}, speech_ratio : SpeechRatios]

ContentMetrics ==
    {[keyword_relevance |-> k, confidence |-> c, clarity |-> l,
      sentence_complexity |-> F(5, 10),
      content_quality |-> ContentQuality(l, c, k, t),
      matched_keywords |-> kws, topic_relevance |-> t] :
        k \in HalfStars, c \in HalfStars, l \in HalfStars, t \in {F(0, 1), F(5, 10), F(1, 1)},
        kws \in {<<"python", "sql">>, <<"python", "sql", "go", "rust">>}}

\* metric values whose products with a weight are rounded in the subnormal range: the
\* smallest float 2^-1074 (5e-324), three times it, and the smallest normal float
TinyMetrics == {FScale2(F(1, 1), MinExp), FScale2(F(3, 1), MinExp), FScale2(F(1, 1), 0 - 1022)}

VisualMetrics ==
    [eye_contact : Tenths \cup TinyMetrics, expression_variation : Tenths \cup TinyMetrics,
     posture : HalfStars, face_detection_rate : {F(4, 10), F(5, 10)}]

NextRatings ==
    \/ \E metrics \in AudioMetrics : AudioGenerateRatingsCall(metrics)
    \/ \E metrics \in ContentMetrics : ContentGenerateRatingsCall(metrics)
    \/ \E metrics \in VisualMetrics : VisualGenerateAnalysisSummaryCall(metrics)

SpecRatings == Init /\ [][NextRatings]_vars

\* metric values at and below zero, as a provider without a lower clamp can return
LowValues == {FZero, FNeg(F(1, 10)), FNeg(F(5, 10)), FNeg(F(1, 1))}

AudioLowMetrics ==
    [tempo : LowValues, pitch_variation : LowValues, volume_variation : {FZero},
     clarity : LowValues, speech_ratio : {FZero}]

ContentLowMetrics ==
    {[keyword_relevance |-> k, confidence |-> c, clarity |-> l,
      sentence_complexity |-> FZero,
      content_quality |-> ContentQuality(l, c, k, FZero),
      matched_keywords |-> <<>>, topic_relevance |-> FZero] :
        k \in LowValues, c \in LowValues, l \in LowValues}

VisualLowMetrics ==
    [eye_contact : LowValues, expression_variation : LowValues, posture : LowValues,
     face_detection_rate : {FZero}]

NextFloor ==
    \/ \E metrics \in AudioLowMetrics : AudioGenerateRatingsCall(metrics)
    \/ \E metrics \in ContentLowMetrics : ContentGenerateRatingsCall(metrics)
    \/ \E metrics \in VisualLowMetrics : VisualGenerateAnalysisSummaryCall(metrics)

SpecFloor == Init /\ [][NextFloor]_vars

\* raw measurements: in range, at the point where the normalized value reaches 1, far
\* above it, and below zero as a faulty measurement would be
RawTempos == {FNeg(F(24, 1)), FZero, F(72, 1), F(120, 1), F(180, 1), F(240, 1),
              F(240000, 1)}
RawPitchStds == {FNeg(F(5, 1)), FZero, F(20, 1), F(100000, 1)}
RawVolumeStds == {FNeg(F(1, 100)), FZero, F(1, 100), F(1000, 1)}
RawMfccVars == {FNeg(F(4, 1)), FZero, F(10, 1), F(20000, 1)}

AudioFiles ==
    {MissingFile, UnreadableFile}
    \cup [file : {"readable"}, tempo : RawTempos, pitch_variation : RawPitchStds,
          volume_variation : RawVolumeStds, mfcc_var : RawMfccVars,
          speech_ratio : {F(5, 10), F(1, 1)}, pause_count : {7}]

\* the transcripts: one short sentence, two sentences, one long sentence, one sentence
\* with letters outside ASCII; with each what sent_tokenize returns for it and what
\* word_tokenize returns for its lower-case form without the stop words and the
\* punctuation
ShortSentence ==
    Str(<<"I", " ", "b", "u", "i", "l", "t", " ", "s", "t", "r", "e", "a", "m", "i", "n",
          "g", " ", "p", "i", "p", "e", "l", "i", "n", "e", "s", ".">>)
SecondSentence ==
    Str(<<"W", "e", " ", "s", "h", "i", "p", "p", "e", "d", " ", "m", "e", "d", "i", "a",
          " ", "t", "o", "o", "l", "s", " ", "f", "o", "r", " ", "c", "r", "e", "a", "t",
          "i", "v", "e", " ", "t", "e", "a", "m", "s", ".">>)
LongSentence ==
    Str(<<"O", "v", "e", "r", " ", "t", "h", "e", " ", "y", "e", "a", "r", "s", " ", "I",
          " ", "d", "e", "s", "i", "g", "n", "e", "d", " ", "a", "n", "d", " ", "b", "u",
          "i", "l", "t", " ", "a", "n", "d", " ", "t", "e", "s", "t", "e", "d", " ", "a",
          "n", "d", " ", "s", "h", "i", "p", "p", "e", "d", " ", "a", "n", "d", " ", "r",
          "a", "n", " ", "t", "e", "n", " ", "l", "a", "r", "g", "e", " ", "s", "t", "r",
          "e", "a", "m", "i", "n", "g", " ", "s", "y", "s", "t", "e", "m", "s", " ", "f",
          "o", "r", " ", "b", "i", "g", " ", "m", "e", "d", "i", "a", " ", "f", "i", "r",
          "m", "s", " ", "i", "n", " ", "E", "u", "r", "o", "p", "e", ".">>)
\* "Zoe led the CAFE team." with e diaeresis (U+00EB) and capital E acute (U+00C9)
AccentedSentence ==
    Str(<<"Z", "o">>) \o <<235>> \o Str(<<" ", "l", "e", "d", " ", "t", "h", "e", " ", "C", "A", "F">>)
    \o <<201>> \o Str(<<" ", "t", "e", "a", "m", ".">>)

SpokenTexts ==
    { [transcript |-> ShortSentence, sentences |-> <<ShortSentence>>,
       transcript_words |-> << Str(<<"b", "u", "i", "l", "t">>),
                           Str(<<"s", "t", "r", "e", "a", "m", "i", "n", "g">>),
                           Str(<<"p", "i", "p", "e", "l", "i", "n", "e", "s">>) >>],
      [transcript |-> ShortSentence \o Str(<<" ">>) \o SecondSentence,
       sentences |-> <<ShortSentence, SecondSentence>>,
       transcript_words |-> << Str(<<"b", "u", "i", "l", "t">>),
                           Str(<<"s", "t", "r", "e", "a", "m", "i", "n", "g">>),
                           Str(<<"p", "i", "p", "e", "l", "i", "n", "e", "s">>),
                           Str(<<"s", "h", "i", "p", "p", "e", "d">>),
                           Str(<<"m", "e", "d", "i", "a">>),
                           Str(<<"t", "o", "o", "l", "s">>),
                           Str(<<"c", "r", "e", "a", "t", "i", "v", "e">>),
                           Str(<<"t", "e", "a", "m", "s">>) >>],
      [transcript |-> LongSentence, sentences |-> <<LongSentence>>,
       transcript_words |-> << Str(<<"y", "e", "a", "r", "s">>),
                           Str(<<"d", "e", "s", "i", "g", "n", "e", "d">>),
                           Str(<<"b", "u", "i", "l", "t">>),
                           Str(<<"t", "e", "s", "t", "e", "d">>),
                           Str(<<"s", "h", "i", "p", "p", "e", "d">>),
                           Str(<<"r", "a", "n">>),
                           Str(<<"t", "e", "n">>),
                           Str(<<"l", "a", "r", "g", "e">>),
                           Str(<<"s", "t", "r", "e", "a", "m", "i", "n", "g">>),
                           Str(<<"s", "y", "s", "t", "e", "m", "s">>),
                           Str(<<"b", "i", "g">>),
                           Str(<<"m", "e", "d", "i", "a">>),
                           Str(<<"f", "i", "r", "m", "s">>),
                           Str(<<"e", "u", "r", "o", "p", "e">>) >>],
      [transcript |-> AccentedSentence, sentences |-> <<AccentedSentence>>,
       transcript_words |-> << Str(<<"z", "o">>) \o <<235>>, Str(<<"l", "e", "d">>),
                               Str(<<"c", "a", "f">>) \o <<233>>,
                               Str(<<"t", "e", "a", "m">>) >>] }

\* job_keywords: none given, an empty list, and lists of which all, some or no
\* keywords are in the transcripts; the last one is "caf" and a small e acute (U+00E9)
KeywordArgs ==
    { [x \in {} |-> <<>>],
      [job_keywords |-> <<>>],
      [job_keywords |-> << Str(<<"s", "t", "r", "e", "a", "m", "i", "n", "g">>) >>],
      [job_keywords |-> << Str(<<"S", "t", "r", "e", "a", "m", "i", "n", "g">>),
                           Str(<<"k", "u", "b", "e", "r", "n", "e", "t", "e", "s">>) >>],
      [job_keywords |-> << Str(<<"k", "u", "b", "e", "r", "n", "e", "t", "e", "s">>) >>],
      [job_keywords |-> << Str(<<"c", "a", "f">>) \o <<233>>, Str(<<"s", "t", "r", "e", "a", "m", "i", "n", "g">>) >>] }

\* job_description: none given, and descriptions with what word_tokenize returns for
\* them without the stop words
DescriptionArgs ==
    { [job_words |-> <<>>],
      [job_description |-> Str(<<"s", "t", "r", "e", "a", "m", "i", "n", "g", " ", "m",
                                 "e", "d", "i", "a", " ", "m", "e", "d", "i", "a">>),
       job_words |-> << Str(<<"s", "t", "r", "e", "a", "m", "i", "n", "g">>),
                       Str(<<"m", "e", "d", "i", "a">>),
                       Str(<<"m", "e", "d", "i", "a">>) >>],
      [job_description |-> Str(<<"c", "o", "o", "k", "i", "n", "g">>),
       job_words |-> << Str(<<"c", "o", "o", "k", "i", "n", "g">>) >>] }

\* what the sentiment model answers for the one segment of a transcript
SentimentAnswers ==
    { <<[label |-> "POSITIVE", score |-> F(9, 10)]>>,
      <<[label |-> "POSITIVE", score |-> F(5, 10)]>>,
      <<[label |-> "NEGATIVE", score |-> F(9, 10)]>> }

\* transcripts without a word: the empty one, a space, a carriage return and a
\* no-break space (U+00A0)
BlankTexts == {<<>>, Str(<<" ">>), <<13, 160>>}

\* the input_data of ContentAnalyzer.process, with the answers of the libraries
Transcripts ==
    { [transcript |-> t, sentences |-> <<>>, transcript_words |-> <<>>,
       job_words |-> <<>>, sentiment |-> <<>>, raises |-> FALSE] : t \in BlankTexts }
    \cup
    { t @@ k @@ d @@ [sentiment |-> s, raises |-> r] :
        t \in SpokenTexts, k \in KeywordArgs, d \in DescriptionArgs,
        s \in SentimentAnswers, r \in BOOLEAN }

Frames ==
    { [readable |-> FALSE, has_face |-> FALSE, eye_score |-> FZero,
       expression_score |-> FZero, has_pose |-> FALSE, posture_score |-> FZero],
      [readable |-> TRUE, has_face |-> FALSE, eye_score |-> FZero,
       expression_score |-> FZero, has_pose |-> FALSE, posture_score |-> FZero],
      [readable |-> TRUE, has_face |-> TRUE, eye_score |-> F(1, 1),
       expression_score |-> F(25, 100), has_pose |-> TRUE, posture_score |-> F(1, 1)],
      [readable |-> TRUE, has_face |-> TRUE, eye_score |-> F(5, 10),
       expression_score |-> F(75, 100), has_pose |-> FALSE, posture_score |-> FZero],
      [readable |-> TRUE, has_face |-> FALSE, eye_score |-> FZero,
       expression_score |-> FZero, has_pose |-> TRUE, posture_score |-> F(7, 10)] }

Videos ==
    [frames : {<<>>} \cup {<<f>> : f \in Frames} \cup {<<f, g>> : f \in Frames, g \in Frames},
     expression_std : {FZero, F(25, 100)}]

\* the audio paths the pipeline passes on: it writes no file of either name, and
\* whether one exists is for the file system to say
AudioPaths == {GetMockAudioPath, MockExtractAudio([name |-> InterviewPath])}

NextProviders ==
    \/ \E audio \in AudioFiles : AudioAnalyzerProcessCall(audio)
    \/ \E text \in Transcripts : ContentAnalyzerProcessCall(text)
    \/ \E video \in Videos : VisualAnalyzerProcessCall(video)
    \/ \E audio_path \in AudioPaths, rnd \in PipelineDraws :
          AudioAnalyzeMissing(audio_path, rnd)
    \/ \E audio_path \in AudioPaths : AudioAnalyzeCall(audio_path)
    \/ \E rnd \in PipelineDraws : AudioAnalyzeReturn(rnd)

SpecProviders == Init /\ [][NextProviders]_vars

NextPipeline ==
    \/ \E video_path \in PipelineVideos, job_keywords \in PipelineKeywords,
          candidate_name \in Candidates :
          ProcessVideoStart(video_path, job_keywords, candidate_name)
    \/ PipelineSleep
    \/ PipelineStep
    \/ ProcessVideoExcept
    \/ \E new \in ChangedKeywords : KeywordsChanged(new)

SpecPipeline == Init /\ [][NextPipeline]_vars

\* ------------------------------------------------------------------------
\* Properties
\* ------------------------------------------------------------------------
Called == result # None
One == F(1, 1)

\* every metric of keys is present in fs with value 1.0
AllOne(fs, keys) == keys \subseteq DOMAIN fs /\ \A k \in keys : fs[k] = One

\* C1: a modality whose scoring metrics are all 1.0 gets the ComponentScore
\* 100 exactly (the feature weights of each modality sum to 1)
C1_FullMarksScore100 ==
    Called =>
        /\ AllOne(VisualFeaturesOf(input_data), VisualKeys)
               => result.component_scores.visual = Hundred
        /\ AllOne(AudioFeaturesOf(input_data), AudioKeys)
               => result.component_scores.audio = Hundred
        /\ AllOne(ContentFeaturesOf(input_data), ContentKeys)
               => result.component_scores.content = Hundred

C1_Witness ==
    /\ Called
    /\ AllOne(VisualFeaturesOf(input_data), VisualKeys)
    /\ AllOne(AudioFeaturesOf(input_data), AudioKeys)
    /\ AllOne(ContentFeaturesOf(input_data), ContentKeys)
    /\ result.component_scores = [visual |-> Hundred, audio |-> Hundred, content |-> Hundred]

InScoreRange(v) == FGe(v, FZero) /\ FLe(v, Hundred)

\* some scoring metric of keys is missing from a FeatureSet that has others
Partial(fs, keys) == (DOMAIN fs) \cap keys # {} /\ ~(keys \subseteq DOMAIN fs)

\* C2: with metrics in [0,1], any of them missing, the three ComponentScores
\* and overall_score lie in [0,100]
C2_ScoresInRange ==
    Called =>
        /\ InScoreRange(result.component_scores.visual)
        /\ InScoreRange(result.component_scores.audio)
        /\ InScoreRange(result.component_scores.content)
        /\ InScoreRange(result.overall_score)

C2_Witness ==
    /\ Called
    /\ Partial(AudioFeaturesOf(input_data), AudioKeys)
    /\ FGt(result.component_scores.audio, FZero)
    /\ FLt(result.component_scores.audio, Hundred)
    /\ FGt(result.overall_score, result.component_scores.audio)
EqualComponents ==
    /\ result.component_scores.visual = result.component_scores.audio
    /\ result.component_scores.audio = result.component_scores.content

\* |x - y| <= y * 2^-51: x is y up to the rounding of three products and two sums
WithinRounding(x, y) == FLe(FAbs(FSub(x, y)), FScale2(y, 0 - 51))

\* C3 as stated: when the three ComponentScores all equal X, overall_score
\* equals X exactly
C3_EqualComponentsGiveExactlyX ==
    (Called /\ EqualComponents) => result.overall_score = result.component_scores.visual

\* C3 as amended: when the three ComponentScores all equal X, overall_score
\* differs from X by at most X * 2^-51
C3_EqualComponentsGiveXWithinRounding ==
    (Called /\ EqualComponents)
        => WithinRounding(result.overall_score, result.component_scores.visual)

C3_Witness ==
    /\ Called
    /\ EqualComponents
    /\ FGt(result.component_scores.visual, FZero)
    /\ result.overall_score # result.component_scores.visual
    /\ WithinRounding(result.overall_score, result.component_scores.visual)
MockReturned == mock_result # None /\ mock_result # IndexError

\* 0.3*visual + 0.3*audio + 0.4*content
WeightedSum(cs) ==
    FAdd(FAdd(FMul(F(3, 10), cs.visual), FMul(F(3, 10), cs.audio)),
         FMul(F(4, 10), cs.content))

\* C4: in the record Scorer.process returns and in the 'scores' record of
\* MockPipeline.process_video, overall_score = 0.3*visual + 0.3*audio +
\* 0.4*content of the record's component_scores
C4_OverallIsWeightedSum ==
    /\ (Called /\ result # KeyError)
           => result.overall_score = WeightedSum(result.component_scores)
    /\ MockReturned
           => mock_result.scores.overall_score
                  = WeightedSum(mock_result.scores.component_scores)

\* no FeatureSet of input_data has content
AllEmpty ==
    /\ ~Truthy(VisualFeaturesOf(input_data))
    /\ ~Truthy(AudioFeaturesOf(input_data))
    /\ ~Truthy(ContentFeaturesOf(input_data))

\* C5: with all three FeatureSets empty or absent, overall_score = 0, strengths
\* is the one generic strengths filler and improvements the one generic
\* improvements filler
C5_AllEmptyGivesFillers ==
    (Called /\ AllEmpty) =>
        /\ result.overall_score = FZero
        /\ result.strengths = <<StrengthFiller.text>>
        /\ result.improvements = <<ImprovementFiller.text>>

NoStrengthQualifies ==
    \A i \in 1..Len(result.feature_scores) : ~IsStrength(result.feature_scores[i])
NoImprovementQualifies ==
    \A i \in 1..Len(result.feature_scores) : ~IsImprovement(result.feature_scores[i])

\* C6: when no feature qualifies as a strength (an improvement), the list is
\* exactly one generic filler; neither list is ever empty; for the Scorer and
\* for MockPipeline
C6_ListsFallBackToFiller ==
    /\ Called =>
          /\ NoStrengthQualifies => result.strengths = <<StrengthFiller.text>>
          /\ NoImprovementQualifies => result.improvements = <<ImprovementFiller.text>>
          /\ result.strengths # <<>>
          /\ result.improvements # <<>>
    /\ MockReturned =>
          /\ mock_result.scores.strengths # <<>>
          /\ mock_result.scores.improvements # <<>>

\* the cross-modality weights have the three keys and sum to 1.0
ValidWeights(w) ==
    /\ {"visual", "audio", "content"} \subseteq DOMAIN w
    /\ FAdd(FAdd(w["visual"], w["audio"]), w["content"]) = One

\* C7: a weight configuration that does not sum to 1.0 (or lacks a key) is
\* rejected at construction; no such Scorer exists or produces an
\* overall_score
C7_InvalidWeightsRejected ==
    /\ weights # None => ValidWeights(weights)
    /\ (Called /\ result # KeyError) => ValidWeights(weights)
ModalityKeys == {"visual_features", "audio_features", "content_features"}

ScoringKeys(mk) ==
    IF mk = "visual_features" THEN VisualKeys
    ELSE IF mk = "audio_features" THEN AudioKeys ELSE ContentKeys

ComponentOf(r, mk) ==
    IF mk = "visual_features" THEN r.component_scores.visual
    ELSE IF mk = "audio_features" THEN r.component_scores.audio
    ELSE r.component_scores.content

\* the FeatureSet of modality mk as a dictionary ({} when absent or None)
FeaturesOf(d, mk) ==
    LET fs == Get(d, mk, EmptyDict) IN IF fs = None THEN EmptyDict ELSE fs

\* input d with d[mk][key] = v
WithKey(d, mk, key, v) ==
    LET fs  == FeaturesOf(d, mk)
        fs2 == [k \in (DOMAIN fs) \cup {key} |-> IF k = key THEN v ELSE fs[k]]
    IN  [m \in (DOMAIN d) \cup {mk} |-> IF m = mk THEN fs2 ELSE d[m]]

\* input d with d[mk] = fs, or without mk when fs is Absent
WithFeatures(d, mk, fs) ==
    IF fs = Absent THEN [m \in (DOMAIN d) \ {mk} |-> d[m]]
    ELSE [m \in (DOMAIN d) \cup {mk} |-> IF m = mk THEN fs ELSE d[m]]

IsResult(r) ==
    DOMAIN r = {"overall_score", "component_scores", "feature_scores",
                "strengths", "improvements"}

\* C8: with default weights process returns a result for every input, whatever
\* keys or metrics are missing, and a missing metric gives the same
\* ComponentScores as that metric present with value 0
C8_TotalAndMissingIsZero ==
    Called =>
        /\ IsResult(result)
        /\ \A mk \in ModalityKeys :
              \A key \in ScoringKeys(mk) \ DOMAIN FeaturesOf(input_data, mk) :
                  process(weights, feature_weights,
                          WithKey(input_data, mk, key, FZero)).component_scores
                      = result.component_scores

C8_Witness ==
    /\ Called
    /\ IsResult(result)
    /\ "audio_features" \notin DOMAIN input_data
    /\ Partial(VisualFeaturesOf(input_data), VisualKeys)
    /\ FGt(result.component_scores.visual, FZero)
    /\ "posture" \notin DOMAIN VisualFeaturesOf(input_data)

\* the FeatureSets the other modalities are replaced by
Replacements(keys) ==
    {Absent, EmptyDict, Full(keys, Level(MidLevel))}

OtherModalities(mk) == ModalityKeys \ {mk}

\* C9: a ComponentScore depends only on its own modality's FeatureSet: it is 0
\* when that FeatureSet is empty, and replacing or emptying the FeatureSets of
\* the other two modalities does not change it
C9_ComponentDependsOnOwnModality ==
    Called =>
        \A mk \in ModalityKeys :
            /\ DOMAIN FeaturesOf(input_data, mk) = {} => ComponentOf(result, mk) = FZero
            /\ \A o \in OtherModalities(mk) :
                  \A fs \in Replacements(ScoringKeys(o)) :
                      ComponentOf(process(weights, feature_weights,
                                          WithFeatures(input_data, o, fs)), mk)
                          = ComponentOf(result, mk)

C9_Witness ==
    /\ Called
    /\ "clarity" \in DOMAIN AudioFeaturesOf(input_data)
    /\ "clarity" \in DOMAIN ContentFeaturesOf(input_data)
    /\ AudioFeaturesOf(input_data)["clarity"] # ContentFeaturesOf(input_data)["clarity"]
    /\ FGt(result.component_scores.audio, FZero)
    /\ result.component_scores.audio # result.component_scores.content
    /\ DOMAIN FeaturesOf(input_data, "visual_features") = {}
    /\ result.component_scores.visual = FZero

\* keys outside the scoring vocabulary, with the values the providers give them
ExtraKeys(mk) ==
    IF mk = "visual_features" THEN {"face_detection_rate", "expression", "error"}
    ELSE IF mk = "audio_features" THEN {"pause_count", "error"}
    ELSE {"matched_keywords", "word_count", "error"}

ExtraValue(key) ==
    IF key = "face_detection_rate" THEN Level(MidLevel)
    ELSE IF key = "expression" THEN "neutral"
    ELSE IF key = "error" THEN "analysis failed"
    ELSE IF key = "matched_keywords" THEN <<"python">>
    ELSE 7

\* the modalities whose FeatureSet is a dictionary of input_data
PresentModalities == {mk \in DOMAIN input_data : input_data[mk] # None}

\* C10: adding a key outside the scoring vocabulary to any FeatureSet, an
\* empty one included, leaves every field of the result unchanged
C10_ExtraKeysIgnored ==
    Called =>
        \A mk \in PresentModalities :
            \A key \in ExtraKeys(mk) \ DOMAIN input_data[mk] :
                process(weights, feature_weights,
                        WithKey(input_data, mk, key, ExtraValue(key))) = result
\* ---- the selector of strengths and improvements
AtLeast70(item) == FGe(item[2], F(70, 1))
Below60(item) == FLt(item[2], F(60, 1))
FirstThree(s) == SubSeq(s, 1, IF Len(s) < 3 THEN Len(s) ELSE 3)
LastThree(s) == SubSeq(s, IF Len(s) < 3 THEN 1 ELSE Len(s) - 2, Len(s))
IsPermutationOf(s, t) ==
    /\ Len(s) = Len(t)
    /\ \A i \in 1..Len(t) : Cardinality({j \in 1..Len(s) : s[j] = t[i]}) = 1
IsDescending(s) == \A i \in 1..(Len(s) - 1) : FGe(s[i][2], s[i + 1][2])

ExampleTable ==
    << <<"a", F(90, 1)>>, <<"b", F(85, 1)>>, <<"c", F(80, 1)>>,
       <<"d", F(50, 1)>>, <<"e", F(40, 1)>>, <<"f", F(30, 1)>> >>

\* C11: the selector sorts the FeatureScoreTable in descending order of value;
\* strengths is exactly the sub-list of the first three sorted entries with value >= 70
\* and improvements exactly the sub-list of the last three sorted entries with value < 60,
\* both in sorted order; {a:90,b:85,c:80,d:50,e:40,f:30} gives [a,b,c] and [d,e,f].
C11_SelectorTakesTopAndBottomThree ==
    /\ Strengths(ExampleTable) = <<"a", "b", "c">>
    /\ Improvements(ExampleTable) = <<"d", "e", "f">>
    /\ (Called /\ IsResult(result)) =>
          LET sorted_features == SortedFeatures(result.feature_scores)
          IN  /\ IsPermutationOf(sorted_features, result.feature_scores)
              /\ IsDescending(sorted_features)
              /\ result.strengths = Names(SelectSeq(FirstThree(sorted_features), AtLeast70))
              /\ result.improvements = Names(SelectSeq(LastThree(sorted_features), Below60))

\* a table with no two equal values that is not stored in descending order, with three
\* strengths and three improvements
C11_Witness ==
    /\ Called /\ IsResult(result)
    /\ Len(result.strengths) = 3 /\ Len(result.improvements) = 3
    /\ \A i, j \in 1..Len(result.feature_scores) :
          i # j => result.feature_scores[i][2] # result.feature_scores[j][2]
    /\ ~IsDescending(result.feature_scores)

InsertionOrder ==
    <<"eye_contact", "posture", "expression",
      "speaking_rate", "tone_variation", "volume_control", "voice_clarity",
      "job_relevance", "confidence", "speech_clarity">>
PositionIn(seq, x) == CHOOSE i \in 1..Len(seq) : seq[i] = x
AllTenEqual(t) == Len(t) = 10 /\ \A i \in 1..10 : t[i][2] = t[1][2]

\* C12: in the sorted list features of equal value keep the insertion order of the
\* FeatureScoreTable, which is visual, audio, content and the fixed metric order within
\* each; ten equal values >= 70 give strengths [eye_contact, posture, expression], ten
\* equal values < 60 give improvements [job_relevance, confidence, speech_clarity].
C12_TiesKeepInsertionOrder ==
    (Called /\ IsResult(result)) =>
        LET t == result.feature_scores
            s == SortedFeatures(t)
        IN  /\ \A i, j \in 1..Len(t) :
                  i < j => PositionIn(InsertionOrder, t[i][1]) < PositionIn(InsertionOrder, t[j][1])
            /\ \A i, j \in 1..Len(s) :
                  (i < j /\ s[i][2] = s[j][2]) => PositionIn(t, s[i]) < PositionIn(t, s[j])
            /\ (AllTenEqual(t) /\ FGe(t[1][2], F(70, 1))) =>
                  result.strengths = <<"eye_contact", "posture", "expression">>
            /\ (AllTenEqual(t) /\ FLt(t[1][2], F(60, 1))) =>
                  result.improvements = <<"job_relevance", "confidence", "speech_clarity">>

\* ten equal values of at least 70
C12_Witness ==
    /\ Called /\ IsResult(result)
    /\ AllTenEqual(result.feature_scores)
    /\ FGe(result.feature_scores[1][2], F(70, 1))
    /\ Len(result.strengths) = 3

\* C13: Scorer.process is a pure function of its input: after any sequence of calls on
\* one Scorer the weights and feature_weights are as constructed, every argument is as it
\* was passed, and any two calls with the same input returned the same result, with the
\* same ordered strengths and improvements.
C13_ProcessIsPure ==
    /\ weights = ScorerInit(None).weights
    /\ feature_weights = ScorerInit(None).feature_weights
    /\ \A i \in 1..Len(history) : history[i].input_data = history[i].argument
    /\ Called => input_data = history[Len(history)].argument
    /\ \A i, j \in 1..Len(history) :
          history[i].argument = history[j].argument =>
              /\ history[i].result = history[j].result
              /\ history[i].result.strengths = history[j].result.strengths
              /\ history[i].result.improvements = history[j].result.improvements

\* the same input before and after a call with another input whose result differs
C13_Witness ==
    /\ Len(history) = 3
    /\ history[1].argument = history[3].argument
    /\ history[1].argument # history[2].argument
    /\ history[1].result # history[2].result
    /\ history[3].result.strengths # <<>>

\* ---- the rating generators
Rated(op) == analyzer_call # None /\ analyzer_call.op = op
Between(lo, x, hi) == FGe(x, lo) /\ FLt(x, hi)

\* C14: for every normalized tempo t in [0,1] the tempo rating and comment are those of
\* the bands t < 0.3: 2 slow, 0.3 <= t < 0.45: 3 moderate, 0.45 <= t < 0.6: 4 fluent,
\* 0.6 <= t < 0.75: 5 energetic, t >= 0.75: 2 too fast; a boundary value belongs to the
\* higher band.
C14_TempoBands ==
    Rated("AudioAnalyzer._generate_ratings") =>
        LET t == analyzer_call.arg.tempo
            r == analyzer_result.tempo_rating
            c == analyzer_result.comments.tempo
        IN  /\ FLt(t, F(3, 10)) => (r = 2 /\ c = "slow pace")
            /\ Between(F(3, 10), t, F(45, 100)) => (r = 3 /\ c = "moderate pace")
            /\ Between(F(45, 100), t, F(6, 10)) => (r = 4 /\ c = "fluent pace")
            /\ Between(F(6, 10), t, F(75, 100)) => (r = 5 /\ c = "energetic pace")
            /\ FGe(t, F(75, 100)) => (r = 2 /\ c = "too fast")

\* tempo 0.8, in the too-fast band
C14_Witness ==
    /\ Rated("AudioAnalyzer._generate_ratings")
    /\ analyzer_call.arg.tempo = F(8, 10)
    /\ analyzer_result.tempo_rating = 2
    /\ analyzer_result.comments.tempo = "too fast"

TempoIsHalf == Rated("AudioAnalyzer._generate_ratings") /\ analyzer_call.arg.tempo = F(5, 10)

\* C15, as claimed: a normalized tempo of 0.5 gets tempo_rating 3 and the comment of the
\* moderate band.
C15_TempoHalfIsModerate ==
    TempoIsHalf =>
        /\ analyzer_result.tempo_rating = 3
        /\ analyzer_result.comments.tempo = "moderate pace"

\* C15, amended: a normalized tempo of 0.5 gets tempo_rating 4 and the comment of the
\* fluent band.
C15_TempoHalfIsFluent ==
    TempoIsHalf =>
        /\ analyzer_result.tempo_rating = 4
        /\ analyzer_result.comments.tempo = "fluent pace"

C15_Witness == TempoIsHalf /\ analyzer_result.tempo_rating = 4

RatingFields(op) ==
    IF op = "AudioAnalyzer._generate_ratings"
    THEN {"tempo_rating", "pitch_rating", "volume_rating", "clarity_rating", "overall_rating"}
    ELSE IF op = "ContentAnalyzer._generate_ratings"
    THEN {"keyword_rating", "confidence_rating", "clarity_rating", "overall_rating"}
    ELSE {"eye_contact_rating", "expression_rating", "posture_rating", "overall_rating"}

RatingOps ==
    {"AudioAnalyzer._generate_ratings", "ContentAnalyzer._generate_ratings",
     "VisualAnalyzer._generate_analysis_summary"}

\* C16: every rating the audio, content and visual rating generators return for metric
\* values in [0,1] is an integer from 1 to 5.
C16_RatingsFromOneToFive ==
    \A op \in RatingOps :
        Rated(op) => \A f \in RatingFields(op) : analyzer_result[f] \in 1..5

\* full eye contact: int(1.0 * 5) + 1 is 6 and is capped at 5
C16_Witness ==
    /\ Rated("VisualAnalyzer._generate_analysis_summary")
    /\ analyzer_call.arg.eye_contact = F(1, 1)
    /\ analyzer_call.arg.posture = FZero
    /\ analyzer_result.eye_contact_rating = 5
    /\ analyzer_result.posture_rating = 1

\* ---- the feature providers
InUnitInterval(x) == FGe(x, FZero) /\ FLe(x, F(1, 1))
Analyzed(op) == Rated(op) /\ "error" \notin DOMAIN analyzer_result

\* C17: each of the four audio normalizations of AudioAnalyzer.process (tempo / 240,
\* pitch std / 100, volume std * 20, MFCC variance / 20, each in min(1.0, .)) yields a
\* value in [0,1] for any raw input, negative and very large ones included.
C17_NormalizedInUnitInterval ==
    Analyzed("AudioAnalyzer.process") =>
        /\ InUnitInterval(analyzer_result.speaking_rate)
        /\ InUnitInterval(analyzer_result.pitch_variation)
        /\ InUnitInterval(analyzer_result.volume_variation)
        /\ InUnitInterval(NormalizedMfccVar(analyzer_call.arg.mfcc_var))

\* a provider call on degenerate or failed input
Degenerate ==
    \/ Rated("AudioAnalyzer.process") /\ analyzer_call.arg \in {MissingFile, UnreadableFile}
    \/ Rated("ContentAnalyzer.process")
       /\ (IsBlank(analyzer_call.arg.transcript) \/ analyzer_call.arg.raises)
    \/ Rated("VisualAnalyzer.process")
       /\ \/ analyzer_call.arg.frames = <<>>
          \/ \E i \in 1..Len(analyzer_call.arg.frames) : ~analyzer_call.arg.frames[i].readable

ProviderKeys ==
    IF analyzer_call.op = "AudioAnalyzer.process" THEN AudioKeys
    ELSE IF analyzer_call.op = "ContentAnalyzer.process" THEN ContentKeys
    ELSE VisualKeys

IsNumber(v) == DOMAIN v = {"s", "m", "e"}

\* C19: on degenerate or failed input (missing or unreadable audio file, empty
\* transcript, zero frames, an exception inside the analysis) AudioAnalyzer.process,
\* ContentAnalyzer.process and VisualAnalyzer.process return a FeatureSet that has all
\* scoring keys of the modality with numeric values, never a bare failure signal.
C19_ProvidersReturnDefaults ==
    Degenerate =>
        /\ ProviderKeys \subseteq DOMAIN analyzer_result
        /\ \A k \in ProviderKeys : IsNumber(analyzer_result[k])

\* ---- the record handed to the presentation layer
OutputFields ==
    {"overall_score", "component_scores", "feature_scores", "strengths",
     "improvements", "ratings"}

HasOutputFields(r) ==
    /\ OutputFields \subseteq DOMAIN r
    /\ DOMAIN r.component_scores = {"visual", "audio", "content"}

\* C18: the record Scorer.process returns, and the 'scores' record
\* MockPipeline.process_video returns, carry overall_score, component_scores with
\* the keys visual/audio/content, feature_scores, strengths, improvements and
\* ratings
C18_ResultCarriesAllFields ==
    /\ Called => HasOutputFields(result)
    /\ MockReturned => HasOutputFields(mock_result.scores)

\* ---- Pipeline.process_video
\* C20: in Pipeline.process_video a failure inside a provider step (frame extraction,
\* audio extraction and transcription, visual analysis, audio analysis) never aborts
\* the run: process_video does not raise, and what it returns contains 'scores'
C20_PipelineNeverAborts ==
    /\ pc # "raised"
    /\ pc = "returned" => "scores" \in DOMAIN run.result

\* ---- the audio FeatureSet
AudioProviderOps == {"AudioAnalyzer.process", "modules.AudioAnalyzer.analyze"}

\* C21: every audio FeatureSet a provider returns (AudioAnalyzer.process of
\* audio_analyzer.py, AudioAnalyzer.analyze of modules/audio_analyzer.py and its mock
\* fallback) has speaking_rate, pitch_variation, volume_variation and clarity in
\* [0,1], so that the audio ComponentScore computed from it lies in [0,100]
C21_AudioFeatureSetNormalized ==
    \A op \in AudioProviderOps :
        Analyzed(op) =>
            /\ \A k \in AudioKeys : InUnitInterval(analyzer_result[k])
            /\ InScoreRange(AudioScore(FeatureWeights, analyzer_result))

NonNegativeRaw ==
    /\ Analyzed("AudioAnalyzer.process")
    /\ \A k \in {"tempo", "pitch_variation", "volume_variation", "mfcc_var"} :
          FGe(analyzer_call.arg[k], FZero)

\* C22: for non-negative raw inputs (tempo, pitch std, RMS std, MFCC variance) every
\* normalized metric AudioAnalyzer.process returns (speaking_rate, pitch_variation,
\* volume_variation, clarity, rhythmic_score, tonal_score) lies in [0,1]
C22_NormalizedOutputsInUnitInterval ==
    NonNegativeRaw =>
        \A k \in {"speaking_rate", "pitch_variation", "volume_variation", "clarity",
                  "rhythmic_score", "tonal_score"} :
            InUnitInterval(analyzer_result[k])

\* ---- overall ratings
SubRatings(op) == RatingFields(op) \ {"overall_rating"}

\* C23: in the ratings of each modality overall_rating is a weighted average of the
\* modality's own sub-ratings, rounded and clamped to [1,5]: it is never below the
\* smallest and never above the largest sub-rating; for audio it is the rounded mean
\* of the four sub-ratings
C23_OverallIsAverageOfSubRatings ==
    /\ \A op \in RatingOps :
          Rated(op) =>
              /\ \E f \in SubRatings(op) : analyzer_result[f] <= analyzer_result.overall_rating
              /\ \E f \in SubRatings(op) : analyzer_result[f] >= analyzer_result.overall_rating
    /\ Rated("AudioAnalyzer._generate_ratings") =>
          LET sum == analyzer_result.tempo_rating + analyzer_result.pitch_rating
                     + analyzer_result.volume_rating + analyzer_result.clarity_rating
          IN  analyzer_result.overall_rating
                  = IntMin(5, IntMax(1, RoundInt(F(sum, 4))))

\* ---- comments
\* the thresholds the comment of each metric is chosen by
AudioCuts ==
    [tempo            |-> {F(3, 10), F(45, 100), F(6, 10), F(75, 100)},
     pitch_variation  |-> {F(1, 10), F(3, 10)},
     volume_variation |-> {F(1, 10), F(3, 10)},
     clarity          |-> {F(3, 10), F(6, 10)},
     speech_ratio     |-> {F(4, 10), F(7, 10)}]

ContentCuts ==
    [keyword_relevance |-> {F(2, 10), F(5, 10)},
     confidence        |-> {F(4, 10), F(7, 10)},
     clarity           |-> {F(4, 10), F(7, 10)},
     content_quality   |-> {F(4, 10), F(7, 10)}]

VisualCuts ==
    [eye_contact          |-> {F(3, 10), F(7, 10)},
     expression_variation |-> {F(1, 10), F(3, 10)},
     posture              |-> {F(4, 10), F(7, 10)},
     face_detection_rate  |-> {F(5, 10)}]

CommentCuts(op) ==
    IF op = "AudioAnalyzer._generate_ratings" THEN AudioCuts
    ELSE IF op = "ContentAnalyzer._generate_ratings" THEN ContentCuts
    ELSE VisualCuts

Hundredth == F(1, 100)

\* the band of x: the number of thresholds x has reached
BandOf(x, cuts) == Cardinality({c \in cuts : FGe(x, c)})

SameBands(op, a, b) ==
    \A k \in DOMAIN CommentCuts(op) :
        BandOf(a[k], CommentCuts(op)[k]) = BandOf(b[k], CommentCuts(op)[k])

CommentsOf(op, ratings) ==
    IF op = "VisualAnalyzer._generate_analysis_summary"
    THEN ratings.analysis_explanation ELSE ratings.comments

Generated(op, metrics) ==
    IF op = "AudioAnalyzer._generate_ratings" THEN AudioGenerateRatings(metrics)
    ELSE IF op = "ContentAnalyzer._generate_ratings" THEN ContentGenerateRatings(metrics)
    ELSE VisualGenerateAnalysisSummary(metrics)

OtherKeywords == {<<"java">>, <<"python", "sql", "go", "java">>}

\* other inputs to compare a call with: every metric a hundredth higher, and for the
\* content generator other lists of matched keywords
ComparedInputs(op, arg) ==
    LET nudged == [k \in DOMAIN arg |->
                      IF k \in DOMAIN CommentCuts(op) THEN FAdd(arg[k], Hundredth)
                      ELSE arg[k]]
    IN  IF op = "ContentAnalyzer._generate_ratings"
        THEN {[base EXCEPT !.matched_keywords = kws] :
                 base \in {arg, nudged}, kws \in OtherKeywords}
        ELSE {nudged}

\* C24: the comments a rating generator returns depend only on the bands the metric
\* values fall in: two inputs with every metric in the same band get identical
\* comments, drawn from a fixed set of sentences
C24_CommentsDependOnBandOnly ==
    \A op \in RatingOps :
        Rated(op) =>
            \A other \in ComparedInputs(op, analyzer_call.arg) :
                SameBands(op, analyzer_call.arg, other)
                    => CommentsOf(op, Generated(op, other)) = CommentsOf(op, analyzer_result)

\* ---- the floor of the ratings
AtMostZero(op) ==
    \A k \in DOMAIN CommentCuts(op) : FLe(analyzer_call.arg[k], FZero)

\* C25: a rating is never below 1 however low the metric is, values below 0 included:
\* for metric values x <= 0 every sub-rating and overall rating of the audio, content
\* and visual rating generators is at least 1
C25_RatingsAtLeastOne ==
    \A op \in RatingOps :
        (Rated(op) /\ AtMostZero(op)) =>
            \A f \in RatingFields(op) : analyzer_result[f] >= 1

\* ---- the feature score table
\* the scoring metrics of a modality under their display names, in table order
DisplayNames(mk) ==
    IF mk = "visual_features"
    THEN << <<"eye_contact", "eye_contact">>, <<"posture", "posture">>,
            <<"expression", "expression_variation">> >>
    ELSE IF mk = "audio_features"
    THEN << <<"speaking_rate", "speaking_rate">>, <<"tone_variation", "pitch_variation">>,
            <<"volume_control", "volume_variation">>, <<"voice_clarity", "clarity">> >>
    ELSE << <<"job_relevance", "keyword_relevance">>, <<"confidence", "confidence">>,
            <<"speech_clarity", "clarity">> >>

NonEmpty(d, mk) == mk \in DOMAIN d /\ d[mk] # None /\ DOMAIN d[mk] # {}

\* the entries of a non-empty modality: display name and metric value x 100, a missing
\* metric counting as 0
TableOf(d, mk) ==
    IF NonEmpty(d, mk)
    THEN [i \in 1..Len(DisplayNames(mk)) |->
             <<DisplayNames(mk)[i][1],
               FMul(Get(d[mk], DisplayNames(mk)[i][2], FZero), Hundred)>>]
    ELSE <<>>

\* C26: feature_scores of the Scorer.process result has, for exactly the non-empty
\* modalities, one entry per scoring metric under its display name, each with the value
\* metric x 100 (not multiplied by the feature weight)
C26_FeatureScoreTable ==
    Called =>
        result.feature_scores
            = TableOf(input_data, "visual_features")
              \o TableOf(input_data, "audio_features")
              \o TableOf(input_data, "content_features")

\* a call with a non-empty modality that lacks a metric, with an empty or missing
\* modality, and with a metric of value 0.58 in the table
C26_Witness ==
    /\ Called
    /\ \E mk \in ModalityKeys : ~NonEmpty(input_data, mk)
    /\ \E mk \in ModalityKeys :
          /\ NonEmpty(input_data, mk)
          /\ \E i \in 1..Len(DisplayNames(mk)) :
                DisplayNames(mk)[i][2] \notin DOMAIN input_data[mk]
    /\ \E i \in 1..Len(result.feature_scores) :
          result.feature_scores[i][2] = FMul(Level(MidLevel), Hundred)
\* ---- strengths and improvements on short tables
InBetween(item) == FGe(item[2], F(60, 1)) /\ FLt(item[2], F(70, 1))

\* C28: for every FeatureScoreTable, also one of five or fewer entries, where the
\* first three and the last three sorted entries overlap, no feature name is in both
\* strengths and improvements of the result, each list has at most three entries, and
\* a feature with a value in [60,70) is in neither list.
C28_StrengthsAndImprovementsDisjoint ==
    (Called /\ IsResult(result)) =>
        /\ Range(result.strengths) \cap Range(result.improvements) = {}
        /\ Len(result.strengths) <= 3
        /\ Len(result.improvements) <= 3
        /\ \A i \in 1..Len(result.feature_scores) :
              InBetween(result.feature_scores[i]) =>
                  result.feature_scores[i][1]
                      \notin Range(result.strengths) \cup Range(result.improvements)

\* a table of at most five entries with a strength, an improvement and a value in
\* [60,70)
C28_Witness ==
    /\ Called /\ IsResult(result)
    /\ Len(result.feature_scores) \in 3..5
    /\ result.strengths # <<>>
    /\ result.improvements # <<>>
    /\ \E i \in 1..Len(result.feature_scores) : InBetween(result.feature_scores[i])


\* ---- the audio overall rating
\* C29: for all metric values the overall_rating of AudioAnalyzer._generate_ratings is
\* one of 2, 3, 4, 5: the sub-ratings are at least 2 (tempo), 1 (pitch), 2 (volume) and
\* 2 (clarity), so the rounded mean is never 1 and never above 5, and the clamp
\* min(5, max(1, .)) leaves the rounded mean as it is.
C29_AudioOverallRatingFrom2To5 ==
    Rated("AudioAnalyzer._generate_ratings") =>
        /\ analyzer_result.overall_rating \in 2..5
        /\ analyzer_result.tempo_rating >= 2
        /\ analyzer_result.pitch_rating >= 1
        /\ analyzer_result.volume_rating >= 2
        /\ analyzer_result.clarity_rating >= 2
        /\ analyzer_result.overall_rating
              = RoundInt(AudioOverallScore(<<analyzer_result.tempo_rating,
                                             analyzer_result.pitch_rating,
                                             analyzer_result.volume_rating,
                                             analyzer_result.clarity_rating>>))

\* the lowest sub-ratings 2, 1, 2, 2, of mean 1.75, and overall_rating 2
C29_Witness ==
    /\ Rated("AudioAnalyzer._generate_ratings")
    /\ analyzer_result.tempo_rating = 2
    /\ analyzer_result.pitch_rating = 1
    /\ analyzer_result.volume_rating = 2
    /\ analyzer_result.clarity_rating = 2
    /\ analyzer_result.overall_rating = 2


\* ---- the visual score of the scorer and of the visual analyzer
\* the visual ComponentScore Scorer.process computes from the metrics of the call
ScorerVisualScore == VisualScore(FeatureWeights, analyzer_call.arg)

\* 100 * overall_score of the summary
HundredTimesOverall == FMul(Hundred, analyzer_result.overall_score)

\* max(a, b) of Python: b when b > a, else a
FMax(a, b) == IF FGt(b, a) THEN b ELSE a

\* the error a product rounded in the subnormal range can add: 2^-1065
UnderflowError == FScale2(F(1, 1), 0 - 1065)

\* |x - y| <= max(y * 2^-49, 2^-1065)
WithinSummationError(x, y) ==
    FLe(FAbs(FSub(x, y)), FMax(FScale2(y, 0 - 49), UnderflowError))

\* C30 as stated: for the same eye_contact, posture and expression_variation in [0,1]
\* the visual ComponentScore of Scorer.process equals 100 times the overall_score of
\* VisualAnalyzer._generate_analysis_summary
C30_VisualScoreIsHundredTimesOverall ==
    Rated("VisualAnalyzer._generate_analysis_summary") =>
        ScorerVisualScore = HundredTimesOverall

\* C30 as amended: for the same eye_contact, posture and expression_variation in [0,1]
\* the visual ComponentScore of Scorer.process differs from 100 times the
\* overall_score of VisualAnalyzer._generate_analysis_summary by at most that value
\* times 2^-49, or by at most 2^-1065 where that is more (metrics so small that
\* their products with the weights are rounded in the subnormal range)
C30_VisualScoreNearHundredTimesOverall ==
    Rated("VisualAnalyzer._generate_analysis_summary") =>
        WithinSummationError(ScorerVisualScore, HundredTimesOverall)

\* eye_contact 0.8, expression_variation 0.1, posture 0.1: the two values differ by
\* rounding, 38.0 and 38.000000000000014
C30_Witness ==
    /\ Rated("VisualAnalyzer._generate_analysis_summary")
    /\ analyzer_call.arg["eye_contact"] = F(8, 10)
    /\ analyzer_call.arg["expression_variation"] = F(1, 10)
    /\ analyzer_call.arg["posture"] = F(1, 10)
    /\ ScorerVisualScore = F(38, 1)
    /\ ScorerVisualScore # HundredTimesOverall
    /\ WithinSummationError(ScorerVisualScore, HundredTimesOverall)

====
